---------------------------- MODULE Spec2Model ----------------------------
(***************************************************************************)
(* A model of the ARM GIC driver, arch/arm/common/gic.c: the Distributor   *)
(* and CPU-interface registers the driver reads and writes, the per        *)
(* controller data (gic_data[]), irq_controller_lock, and one action per   *)
(* statement group of every driver entry point, so that entry points       *)
(* running on different cores interleave at register accesses.             *)
(*                                                                         *)
(* A 32-bit register or word is the set of its bit positions that are 1    *)
(* (bit 0 is the least significant): x & y is the intersection, x | y the  *)
(* union, ~x the complement in 0..31, and a shift moves the positions and  *)
(* drops those that leave 0..31.                                           *)
(***************************************************************************)
EXTENDS Integers, Sequences, FiniteSets, TLC

(***************************************************************************)
(* Bounds of the model.                                                    *)
(***************************************************************************)
\* number of cores that call into the driver
NR_CPUS == 2
\* number of driver entry points called in one behaviour
MaxCalls == 2
\* the line-count field of GIC_DIST_CTR: the controllers have
\* 32 * (MaxProbe + 1) lines
MaxProbe == 1
\* the platform's number of Linux interrupts (mach/irqs.h, not in gic.c)
NR_IRQS == 1056

\* gic.c:58-60; a platform with a cascaded controller builds with 2
MAX_GIC_NR == 2

Cores == 0 .. (NR_CPUS - 1)
Gics == 0 .. (MAX_GIC_NR - 1)

(***************************************************************************)
(* 32-bit words.                                                           *)
(***************************************************************************)
BitPos == 0 .. 31
\* 0xffffffff
ALL_ONES == BitPos
\* the bits lo..hi, e.g. 0xffff0000 == BitRange(16, 31)
BitRange(lo, hi) == {b \in BitPos : lo <= b /\ b <= hi}
\* x << n, truncated to 32 bits
Shl(x, n) == {b + n : b \in x} \cap BitPos
\* 1 << n
BIT(n) == Shl({0}, n)
\* ~x
Not32(x) == BitPos \ x
\* the word holding the number n, 0 <= n < 2^31
U32(n) == {b \in 0 .. 30 : (n \div (2 ^ b)) % 2 = 1}

(***************************************************************************)
(* Interrupt types of linux/irq.h that gic_set_type looks at, and errno.   *)
(***************************************************************************)
IRQ_TYPE_EDGE_RISING == 1
IRQ_TYPE_EDGE_FALLING == 2
IRQ_TYPE_LEVEL_HIGH == 4
EINVAL == 22

VARIABLES
    lock,       \* irq_controller_lock: the set of cores holding it (at most one)
    frame,      \* per core: where it is in the entry point it runs, and its locals
    enable,     \* GIC_DIST_ENABLE_SET/CLEAR words 1.. (shared lines), per controller
    bank,       \* GIC_DIST_ENABLE_SET/CLEAR word 0 (lines 0..31), banked per core
    config,     \* GIC_DIST_CONFIG words, 16 lines each
    target,     \* GIC_DIST_TARGET words, 4 lines each
    gic_data,   \* struct gic_chip_data gic_data[MAX_GIC_NR]
    chip_data,  \* per controller, the irqs irq_start .. irq_limit - 1 it was given
    irq_data,   \* cascade irq -> controller, as set_irq_data left it
    no_desc,    \* the irqs below NR_IRQS that irq_to_desc() has no descriptor for
    edge_irqs,  \* the irqs whose flow handler is handle_edge_irq
    dist_ctr,   \* GIC_DIST_CTR & 0x1f, the line-count field, per controller
    dist_ctrl,  \* GIC_DIST_CTRL, per controller
    pri,        \* GIC_DIST_PRI words 8.. (shared lines), 4 lines each
    bank_pri,   \* GIC_DIST_PRI words 0..7 (lines 0..31), banked per core
    cpu_ctrl,   \* GIC_CPU_CTRL, per controller and core
    cpu_primask, \* GIC_CPU_PRIMASK, per controller and core
    pending,    \* GIC_DIST_PENDING_SET/CLEAR words, per controller
    hist        \* the calls made so far: arguments, accesses, result

vars == <<lock, frame, enable, bank, config, target, gic_data, chip_data,
          irq_data, no_desc, edge_irqs, dist_ctr, dist_ctrl, pri, bank_pri,
          cpu_ctrl, cpu_primask, pending, hist>>

hw == <<enable, bank, config, target>>
registry == <<chip_data, irq_data, no_desc>>
\* the registers only initialisation writes, and the pending bits
ctl == <<dist_ctr, dist_ctrl, pri, bank_pri, cpu_ctrl, cpu_primask, pending>>

(***************************************************************************)
(* Register file geometry for a controller with 32 * (MaxProbe + 1) lines. *)
(***************************************************************************)
\* a plausible fault: the line count is not capped at 1020
GicIrqs_NoCap(f) == (f + 1) * 32

\* gic_dist_init: gic_irqs from the probe field
GicIrqs(f) == IF (f + 1) * 32 > 1020 THEN 1020 ELSE (f + 1) * 32
EnableWords == 0 .. MaxProbe
SharedWords == 1 .. MaxProbe
ConfigWords == 0 .. (2 * (MaxProbe + 1) - 1)
TargetWords == 0 .. (8 * (MaxProbe + 1) - 1)

\* what a call can observe or change, kept in hist before and after it
Snap == [enable |-> enable, bank |-> bank, config |-> config, target |-> target,
         gic_data |-> gic_data, edge_irqs |-> edge_irqs,
         dist_ctrl |-> dist_ctrl, cpu_ctrl |-> cpu_ctrl]

IdleFrame == [pc |-> "idle", irq |-> 0, gic_nr |-> 0, type |-> 0, on |-> 0,
              mask_val |-> {}, i |-> 0, val |-> {}, enabled |-> FALSE,
              status |-> 0, pending |-> {}]

Idle(c) == frame[c].pc = "idle"
\* the calls are made one at a time
Sequential == \A c \in Cores : Idle(c)

\* the entry of hist of the call core c is in
cur(c) == CHOOSE k \in DOMAIN hist : hist[k].cpu = c /\ ~hist[k].done

\* core c enters entry point op with the locals f
Call(c, op, f) ==
    /\ Idle(c)
    /\ Len(hist) < MaxCalls
    /\ frame' = [frame EXCEPT ![c] = f]
    /\ hist' = Append([k \in DOMAIN hist |->
                          IF hist[k].done THEN hist[k]
                          ELSE [hist[k] EXCEPT !.solo = FALSE]],
                      [cpu |-> c, op |-> op, irq |-> f.irq, gic_nr |-> f.gic_nr,
                       type |-> f.type, on |-> f.on, mask_val |-> f.mask_val,
                       pre |-> Snap, post |-> Snap, ret |-> 0, io |-> <<>>,
                       solo |-> Sequential, done |-> FALSE])

\* core c goes on to the locals f, having made the accesses ios
Advance(c, f, ios) ==
    /\ frame' = [frame EXCEPT ![c] = f]
    /\ hist' = [hist EXCEPT ![cur(c)].io = @ \o ios]

\* core c returns r, having made the accesses ios
Return(c, ios, r) ==
    /\ frame' = [frame EXCEPT ![c] = IdleFrame]
    /\ hist' = [hist EXCEPT ![cur(c)] =
                   [@ EXCEPT !.io = @ \o ios, !.done = TRUE, !.ret = r,
                             !.post = Snap']]

\* an access: what was done (acc) to which register or function (reg) of which
\* controller (gic), at which word or with which number (idx), with which word
Acc(acc, reg, g, idx, val) == [acc |-> acc, reg |-> reg, gic |-> g, idx |-> idx, val |-> val]
LockAcc == Acc("spin_lock", "irq_controller_lock", 0, 0, {})
UnlockAcc == Acc("spin_unlock", "irq_controller_lock", 0, 0, {})

(***************************************************************************)
(* irq_controller_lock.                                                    *)
(***************************************************************************)
spin_lock(c) == lock = {} /\ lock' = {c}
spin_unlock(c) == lock = {c} /\ lock' = {}

(***************************************************************************)
(* Register accesses.  Word 0 of the enable registers is banked: each core *)
(* reads and writes its own copy.                                          *)
(***************************************************************************)
readl_ENABLE_SET(g, c, w) == IF w = 0 THEN bank[g][c] ELSE enable[g][w]

writel_ENABLE_SET(g, c, w, v) ==
    /\ bank' = IF w = 0 THEN [bank EXCEPT ![g][c] = @ \cup v] ELSE bank
    /\ enable' = IF w = 0 THEN enable ELSE [enable EXCEPT ![g][w] = @ \cup v]

writel_ENABLE_CLEAR(g, c, w, v) ==
    /\ bank' = IF w = 0 THEN [bank EXCEPT ![g][c] = @ \ v] ELSE bank
    /\ enable' = IF w = 0 THEN enable ELSE [enable EXCEPT ![g][w] = @ \ v]

(***************************************************************************)
(* gic_irq(): the controller's line number of a Linux irq.                 *)
(***************************************************************************)
\* get_irq_chip_data(): the controller whose gic_dist_init was the last to
\* take the irq (controllers are initialised in the order of their numbers)
Owners(irq) == {g \in Gics : chip_data[g].first <= irq /\ irq < chip_data[g].limit}
gic_of(irq) == CHOOSE g \in Owners(irq) : \A h \in Owners(irq) : h <= g
gic_irq(irq) == irq - gic_data[gic_of(irq)].irq_offset

(***************************************************************************)
(* gic_mask_irq, gic_unmask_irq.                                           *)
(***************************************************************************)
\* u32 mask = 1 << (d->irq % 32)
IrqMask(irq) == BIT(irq % 32)

gic_mask_irq_call(c, irq) ==
    /\ Call(c, "gic_mask_irq", [IdleFrame EXCEPT !.pc = "mask_lock", !.irq = irq,
                                                 !.val = IrqMask(irq)])
    /\ UNCHANGED <<lock, hw, gic_data, registry, ctl, edge_irqs>>

gic_mask_irq_lock(c) ==
    /\ frame[c].pc = "mask_lock"
    /\ spin_lock(c)
    /\ Advance(c, [frame[c] EXCEPT !.pc = "mask_write"], <<LockAcc>>)
    /\ UNCHANGED <<hw, gic_data, registry, ctl, edge_irqs>>

gic_mask_irq_write(c) ==
    LET f == frame[c]
        g == gic_of(f.irq)
        w == gic_irq(f.irq) \div 32
    IN /\ f.pc = "mask_write"
       /\ writel_ENABLE_CLEAR(g, c, w, f.val)
       /\ Advance(c, [f EXCEPT !.pc = "mask_unlock"],
                  <<Acc("writel", "GIC_DIST_ENABLE_CLEAR", g, w, f.val)>>)
       /\ UNCHANGED <<lock, config, target, gic_data, registry, ctl, edge_irqs>>

gic_mask_irq_unlock(c) ==
    /\ frame[c].pc = "mask_unlock"
    /\ spin_unlock(c)
    /\ UNCHANGED <<hw, gic_data, registry, ctl, edge_irqs>>
    /\ Return(c, <<UnlockAcc>>, 0)

gic_unmask_irq_call(c, irq) ==
    /\ Call(c, "gic_unmask_irq", [IdleFrame EXCEPT !.pc = "unmask_lock", !.irq = irq,
                                                   !.val = IrqMask(irq)])
    /\ UNCHANGED <<lock, hw, gic_data, registry, ctl, edge_irqs>>

gic_unmask_irq_lock(c) ==
    /\ frame[c].pc = "unmask_lock"
    /\ spin_lock(c)
    /\ Advance(c, [frame[c] EXCEPT !.pc = "unmask_write"], <<LockAcc>>)
    /\ UNCHANGED <<hw, gic_data, registry, ctl, edge_irqs>>

\* a plausible fault: unmask writes the bit to the enable-clear register
gic_unmask_irq_write_Clear(c) ==
    LET f == frame[c]
        g == gic_of(f.irq)
        w == gic_irq(f.irq) \div 32
    IN /\ f.pc = "unmask_write"
       /\ writel_ENABLE_CLEAR(g, c, w, f.val)
       /\ Advance(c, [f EXCEPT !.pc = "unmask_unlock"],
                  <<Acc("writel", "GIC_DIST_ENABLE_CLEAR", g, w, f.val)>>)
       /\ UNCHANGED <<lock, config, target, gic_data, registry, ctl, edge_irqs>>

gic_unmask_irq_write(c) ==
    LET f == frame[c]
        g == gic_of(f.irq)
        w == gic_irq(f.irq) \div 32
    IN /\ f.pc = "unmask_write"
       /\ writel_ENABLE_SET(g, c, w, f.val)
       /\ Advance(c, [f EXCEPT !.pc = "unmask_unlock"],
                  <<Acc("writel", "GIC_DIST_ENABLE_SET", g, w, f.val)>>)
       /\ UNCHANGED <<lock, config, target, gic_data, registry, ctl, edge_irqs>>

gic_unmask_irq_unlock(c) ==
    /\ frame[c].pc = "unmask_unlock"
    /\ spin_unlock(c)
    /\ UNCHANGED <<hw, gic_data, registry, ctl, edge_irqs>>
    /\ Return(c, <<UnlockAcc>>, 0)

(***************************************************************************)
(* gic_suspend, gic_resume: no lock is taken.                              *)
(***************************************************************************)
\* for (i = 0; i * 32 < max_irq; i++): is there an iteration after i
MoreWords(g, i) == (i + 1) * 32 < gic_data[g].max_irq

gic_suspend_call(c, g) ==
    /\ Call(c, "gic_suspend", [IdleFrame EXCEPT !.pc = "suspend_read", !.gic_nr = g])
    /\ UNCHANGED <<lock, hw, gic_data, registry, ctl, edge_irqs>>

\* enabled_irqs[i] = readl(base + GIC_DIST_ENABLE_SET + i * 4)
gic_suspend_read(c) ==
    LET f == frame[c]
        g == f.gic_nr
        v == readl_ENABLE_SET(g, c, f.i)
    IN /\ f.pc = "suspend_read"
       /\ gic_data' = [gic_data EXCEPT ![g].enabled_irqs[f.i] = v]
       /\ Advance(c, [f EXCEPT !.pc = "suspend_clear"],
                  <<Acc("readl", "GIC_DIST_ENABLE_SET", g, f.i, v)>>)
       /\ UNCHANGED <<lock, hw, registry, ctl, edge_irqs>>

\* writel(0xffffffff, base + GIC_DIST_ENABLE_CLEAR + i * 4)
gic_suspend_clear(c) ==
    LET f == frame[c]
        g == f.gic_nr
    IN /\ f.pc = "suspend_clear"
       /\ writel_ENABLE_CLEAR(g, c, f.i, ALL_ONES)
       /\ Advance(c, [f EXCEPT !.pc = "suspend_set"],
                  <<Acc("writel", "GIC_DIST_ENABLE_CLEAR", g, f.i, ALL_ONES)>>)
       /\ UNCHANGED <<lock, config, target, gic_data, registry, ctl, edge_irqs>>

\* a plausible fault: only the wakeup lines that were enabled are enabled again
SuspendSetWord_EnabledOnly(g, i) ==
    gic_data[g].wakeup_irqs[i] \cap gic_data[g].enabled_irqs[i]

\* the word gic_suspend writes to GIC_DIST_ENABLE_SET: the wakeup set
SuspendSetWord(g, i) == gic_data[g].wakeup_irqs[i]

\* writel(wakeup_irqs[i], base + GIC_DIST_ENABLE_SET + i * 4); i++; mb(); return 0
gic_suspend_set(c) ==
    LET f == frame[c]
        g == f.gic_nr
        v == SuspendSetWord(g, f.i)
        io == <<Acc("writel", "GIC_DIST_ENABLE_SET", g, f.i, v)>>
    IN /\ f.pc = "suspend_set"
       /\ writel_ENABLE_SET(g, c, f.i, v)
       /\ UNCHANGED <<lock, config, target, gic_data, registry, ctl, edge_irqs>>
       /\ IF MoreWords(g, f.i)
          THEN Advance(c, [f EXCEPT !.pc = "suspend_read", !.i = f.i + 1], io)
          ELSE Return(c, io, 0)

gic_resume_call(c, g) ==
    /\ Call(c, "gic_resume", [IdleFrame EXCEPT !.pc = "resume_clear", !.gic_nr = g])
    /\ UNCHANGED <<lock, hw, gic_data, registry, ctl, edge_irqs>>

\* writel(0xffffffff, base + GIC_DIST_ENABLE_CLEAR + i * 4)
gic_resume_clear(c) ==
    LET f == frame[c]
        g == f.gic_nr
    IN /\ f.pc = "resume_clear"
       /\ writel_ENABLE_CLEAR(g, c, f.i, ALL_ONES)
       /\ Advance(c, [f EXCEPT !.pc = "resume_set"],
                  <<Acc("writel", "GIC_DIST_ENABLE_CLEAR", g, f.i, ALL_ONES)>>)
       /\ UNCHANGED <<lock, config, target, gic_data, registry, ctl, edge_irqs>>

\* a plausible fault: resume enables the wakeup set again
ResumeSetWord_Wakeup(g, i) == gic_data[g].wakeup_irqs[i]

\* the word gic_resume writes to GIC_DIST_ENABLE_SET: the enabled set
ResumeSetWord(g, i) == gic_data[g].enabled_irqs[i]

\* writel(enabled_irqs[i], base + GIC_DIST_ENABLE_SET + i * 4); i++; mb(); return 0
gic_resume_set(c) ==
    LET f == frame[c]
        g == f.gic_nr
        v == ResumeSetWord(g, f.i)
        io == <<Acc("writel", "GIC_DIST_ENABLE_SET", g, f.i, v)>>
    IN /\ f.pc = "resume_set"
       /\ writel_ENABLE_SET(g, c, f.i, v)
       /\ UNCHANGED <<lock, config, target, gic_data, registry, ctl, edge_irqs>>
       /\ IF MoreWords(g, f.i)
          THEN Advance(c, [f EXCEPT !.pc = "resume_clear", !.i = f.i + 1], io)
          ELSE Return(c, io, 0)

(***************************************************************************)
(* gic_ack_irq.                                                            *)
(***************************************************************************)
gic_ack_irq_call(c, irq) ==
    /\ Call(c, "gic_ack_irq", [IdleFrame EXCEPT !.pc = "ack_lock", !.irq = irq])
    /\ UNCHANGED <<lock, hw, gic_data, registry, ctl, edge_irqs>>

gic_ack_irq_lock(c) ==
    /\ frame[c].pc = "ack_lock"
    /\ spin_lock(c)
    /\ Advance(c, [frame[c] EXCEPT !.pc = "ack_write"], <<LockAcc>>)
    /\ UNCHANGED <<hw, gic_data, registry, ctl, edge_irqs>>

\* writel(gic_irq(d), gic_cpu_base(d) + GIC_CPU_EOI)
gic_ack_irq_write(c) ==
    LET f == frame[c]
    IN /\ f.pc = "ack_write"
       /\ Advance(c, [f EXCEPT !.pc = "ack_unlock"],
                  <<Acc("writel", "GIC_CPU_EOI", gic_of(f.irq), 0, U32(gic_irq(f.irq)))>>)
       /\ UNCHANGED <<lock, hw, gic_data, registry, ctl, edge_irqs>>

gic_ack_irq_unlock(c) ==
    /\ frame[c].pc = "ack_unlock"
    /\ spin_unlock(c)
    /\ UNCHANGED <<hw, gic_data, registry, ctl, edge_irqs>>
    /\ Return(c, <<UnlockAcc>>, 0)

(***************************************************************************)
(* gic_set_wake: no lock is taken; wakeup_irqs[reg_offset] |= ... is a     *)
(* load and a store.                                                       *)
(***************************************************************************)
gic_set_wake_call(c, irq, on) ==
    /\ Call(c, "gic_set_wake", [IdleFrame EXCEPT !.pc = "wake_load", !.irq = irq,
                                                 !.on = on])
    /\ UNCHANGED <<lock, hw, gic_data, registry, ctl, edge_irqs>>

\* WARN_ON(gicirq < 32) warns and goes on; the load of wakeup_irqs[reg_offset]
gic_set_wake_load(c) ==
    LET f == frame[c]
        g == gic_of(f.irq)
        gicirq == gic_irq(f.irq)
        v == gic_data[g].wakeup_irqs[gicirq \div 32]
    IN /\ f.pc = "wake_load"
       /\ Advance(c, [f EXCEPT !.pc = "wake_store", !.val = v],
                  IF gicirq < 32 THEN <<Acc("WARN_ON", "gicirq < 32", g, gicirq, {})>>
                  ELSE <<>>)
       /\ UNCHANGED <<lock, hw, gic_data, registry, ctl, edge_irqs>>

\* the word gic_set_wake stores: the bit set if on, cleared if not
WakeWord(old, bit_offset, on) ==
    IF on # 0 THEN old \cup BIT(bit_offset) ELSE old \cap Not32(BIT(bit_offset))

gic_set_wake_store(c) ==
    LET f == frame[c]
        g == gic_of(f.irq)
        gicirq == gic_irq(f.irq)
    IN /\ f.pc = "wake_store"
       /\ gic_data' = [gic_data EXCEPT ![g].wakeup_irqs[gicirq \div 32] =
                          WakeWord(f.val, gicirq % 32, f.on)]
       /\ UNCHANGED <<lock, hw, registry, ctl, edge_irqs>>
       /\ Return(c, <<>>, 0)

(***************************************************************************)
(* gic_set_type.                                                           *)
(***************************************************************************)
\* a plausible fault: the SGI test is off by one
TypeRejected_OffByOne(gicirq, type) ==
    \/ gicirq < 15
    \/ (type # IRQ_TYPE_LEVEL_HIGH /\ type # IRQ_TYPE_EDGE_RISING)

\* the two tests that return -EINVAL
TypeRejected(gicirq, type) ==
    \/ gicirq < 16
    \/ (type # IRQ_TYPE_LEVEL_HIGH /\ type # IRQ_TYPE_EDGE_RISING)

\* u32 confmask = 0x2 << ((gicirq % 16) * 2)
ConfMask(gicirq) == Shl(U32(2), (gicirq % 16) * 2)

\* a plausible fault: a level line has both bits of its field cleared
ConfVal_ClearBoth(val, type, gicirq) ==
    IF type = IRQ_TYPE_LEVEL_HIGH
    THEN val \cap Not32(Shl(U32(3), (gicirq % 16) * 2))
    ELSE IF type = IRQ_TYPE_EDGE_RISING THEN val \cup ConfMask(gicirq)
    ELSE val

\* val &= ~confmask for a level line, val |= confmask for an edge line
ConfVal(val, type, gicirq) ==
    IF type = IRQ_TYPE_LEVEL_HIGH THEN val \cap Not32(ConfMask(gicirq))
    ELSE IF type = IRQ_TYPE_EDGE_RISING THEN val \cup ConfMask(gicirq)
    ELSE val

gic_set_type_call(c, irq, type) ==
    /\ Call(c, "gic_set_type", [IdleFrame EXCEPT !.pc = "type_check", !.irq = irq,
                                                 !.type = type])
    /\ UNCHANGED <<lock, hw, gic_data, registry, ctl, edge_irqs>>

\* if (gicirq < 16) return -EINVAL; if (type != ...) return -EINVAL
gic_set_type_einval(c) ==
    LET f == frame[c]
    IN /\ f.pc = "type_check"
       /\ TypeRejected(gic_irq(f.irq), f.type)
       /\ UNCHANGED <<lock, hw, gic_data, registry, ctl, edge_irqs>>
       /\ Return(c, <<>>, -EINVAL)

gic_set_type_lock(c) ==
    LET f == frame[c]
    IN /\ f.pc = "type_check"
       /\ ~TypeRejected(gic_irq(f.irq), f.type)
       /\ spin_lock(c)
       /\ Advance(c, [f EXCEPT !.pc = "type_read_conf"], <<LockAcc>>)
       /\ UNCHANGED <<hw, gic_data, registry, ctl, edge_irqs>>

\* val = readl(base + GIC_DIST_CONFIG + confoff), then the new type's bit
gic_set_type_read_conf(c) ==
    LET f == frame[c]
        g == gic_of(f.irq)
        gicirq == gic_irq(f.irq)
        v == config[g][gicirq \div 16]
    IN /\ f.pc = "type_read_conf"
       /\ Advance(c, [f EXCEPT !.pc = "type_read_enable",
                               !.val = ConfVal(v, f.type, gicirq)],
                  <<Acc("readl", "GIC_DIST_CONFIG", g, gicirq \div 16, v)>>)
       /\ UNCHANGED <<lock, hw, gic_data, registry, ctl, edge_irqs>>

\* if (readl(base + GIC_DIST_ENABLE_SET + enableoff) & enablemask)
gic_set_type_read_enable(c) ==
    LET f == frame[c]
        g == gic_of(f.irq)
        gicirq == gic_irq(f.irq)
        v == readl_ENABLE_SET(g, c, gicirq \div 32)
    IN /\ f.pc = "type_read_enable"
       /\ Advance(c, [f EXCEPT !.pc = IF v \cap BIT(gicirq % 32) # {}
                                      THEN "type_disable" ELSE "type_write_conf"],
                  <<Acc("readl", "GIC_DIST_ENABLE_SET", g, gicirq \div 32, v)>>)
       /\ UNCHANGED <<lock, hw, gic_data, registry, ctl, edge_irqs>>

\* a plausible fault: the line is not disabled before its config is written
gic_set_type_disable_NoWrite(c) ==
    LET f == frame[c]
    IN /\ f.pc = "type_disable"
       /\ Advance(c, [f EXCEPT !.pc = "type_write_conf", !.enabled = TRUE], <<>>)
       /\ UNCHANGED <<lock, hw, gic_data, registry, ctl, edge_irqs>>

\* writel(enablemask, base + GIC_DIST_ENABLE_CLEAR + enableoff); enabled = true
gic_set_type_disable(c) ==
    LET f == frame[c]
        g == gic_of(f.irq)
        gicirq == gic_irq(f.irq)
    IN /\ f.pc = "type_disable"
       /\ writel_ENABLE_CLEAR(g, c, gicirq \div 32, BIT(gicirq % 32))
       /\ Advance(c, [f EXCEPT !.pc = "type_write_conf", !.enabled = TRUE],
                  <<Acc("writel", "GIC_DIST_ENABLE_CLEAR", g, gicirq \div 32,
                        BIT(gicirq % 32))>>)
       /\ UNCHANGED <<lock, config, target, gic_data, registry, ctl, edge_irqs>>

\* writel(val, base + GIC_DIST_CONFIG + confoff)
gic_set_type_write_conf(c) ==
    LET f == frame[c]
        g == gic_of(f.irq)
        gicirq == gic_irq(f.irq)
    IN /\ f.pc = "type_write_conf"
       /\ config' = [config EXCEPT ![g][gicirq \div 16] = f.val]
       /\ Advance(c, [f EXCEPT !.pc = IF f.enabled THEN "type_enable" ELSE "type_unlock"],
                  <<Acc("writel", "GIC_DIST_CONFIG", g, gicirq \div 16, f.val)>>)
       /\ UNCHANGED <<lock, enable, bank, target, gic_data, registry, ctl, edge_irqs>>

\* if (enabled) writel(enablemask, base + GIC_DIST_ENABLE_SET + enableoff)
gic_set_type_enable(c) ==
    LET f == frame[c]
        g == gic_of(f.irq)
        gicirq == gic_irq(f.irq)
    IN /\ f.pc = "type_enable"
       /\ writel_ENABLE_SET(g, c, gicirq \div 32, BIT(gicirq % 32))
       /\ Advance(c, [f EXCEPT !.pc = "type_unlock"],
                  <<Acc("writel", "GIC_DIST_ENABLE_SET", g, gicirq \div 32,
                        BIT(gicirq % 32))>>)
       /\ UNCHANGED <<lock, config, target, gic_data, registry, ctl, edge_irqs>>

gic_set_type_unlock(c) ==
    /\ frame[c].pc = "type_unlock"
    /\ spin_unlock(c)
    /\ Advance(c, [frame[c] EXCEPT !.pc = "type_handler"], <<UnlockAcc>>)
    /\ UNCHANGED <<hw, gic_data, registry, ctl, edge_irqs>>

\* if ((type & IRQ_TYPE_EDGE_RISING) && gicirq > 31)
\*         __set_irq_handler_unlocked(d->irq, handle_edge_irq);
\* return 0
gic_set_type_handler(c) ==
    LET f == frame[c]
    IN /\ f.pc = "type_handler"
       /\ edge_irqs' = IF /\ U32(f.type) \cap U32(IRQ_TYPE_EDGE_RISING) # {}
                          /\ gic_irq(f.irq) > 31
                       THEN edge_irqs \cup {f.irq} ELSE edge_irqs
       /\ UNCHANGED <<lock, hw, gic_data, registry, ctl>>
       /\ Return(c, <<>>, 0)

(***************************************************************************)
(* gic_set_cpu (irq_set_affinity).                                         *)
(***************************************************************************)
\* cpumask_first(): the lowest core of the mask, NR_CPUS if it has none
cpumask_first(mask_val) ==
    IF mask_val = {} THEN NR_CPUS
    ELSE CHOOSE x \in mask_val : \A y \in mask_val : x <= y

\* a plausible fault: the line's byte is not cleared before the core's bit is set
TargetVal_NoClear(old, cpu, shift) == old \cup BIT(cpu + shift)

\* val = readl(reg) & ~(0xff << shift); val |= 1 << (cpu + shift)
TargetVal(old, cpu, shift) ==
    (old \cap Not32(Shl(BitRange(0, 7), shift))) \cup BIT(cpu + shift)

gic_set_cpu_call(c, irq, mask_val) ==
    /\ Call(c, "gic_set_cpu", [IdleFrame EXCEPT !.pc = "cpu_lock", !.irq = irq,
                                                !.mask_val = mask_val])
    /\ UNCHANGED <<lock, hw, gic_data, registry, ctl, edge_irqs>>

gic_set_cpu_lock(c) ==
    /\ frame[c].pc = "cpu_lock"
    /\ spin_lock(c)
    /\ Advance(c, [frame[c] EXCEPT !.pc = "cpu_desc"], <<LockAcc>>)
    /\ UNCHANGED <<hw, gic_data, registry, ctl, edge_irqs>>

\* irq_to_desc(irq) != NULL
HasDesc(irq) == irq < NR_IRQS /\ irq \notin no_desc

\* a plausible fault: the error path returns without releasing the lock
SetCpuNoDescLock_Kept(c) == lock' = lock

\* the lock on the path that finds no descriptor
SetCpuNoDescLock(c) == spin_unlock(c)

\* desc = irq_to_desc(d->irq);
\* if (desc == NULL) { spin_unlock(&irq_controller_lock); return -EINVAL; }
gic_set_cpu_nodesc(c) ==
    LET f == frame[c]
    IN /\ f.pc = "cpu_desc"
       /\ ~HasDesc(f.irq)
       /\ SetCpuNoDescLock(c)
       /\ UNCHANGED <<hw, gic_data, registry, ctl, edge_irqs>>
       /\ Return(c, <<UnlockAcc>>, -EINVAL)

\* val = readl(reg) & ~(0xff << shift), reg the word of lines gic_irq & ~3
gic_set_cpu_read(c) ==
    LET f == frame[c]
        g == gic_of(f.irq)
        w == gic_irq(f.irq) \div 4
        v == target[g][w]
    IN /\ f.pc = "cpu_desc"
       /\ HasDesc(f.irq)
       /\ Advance(c, [f EXCEPT !.pc = "cpu_write", !.val = v],
                  <<Acc("readl", "GIC_DIST_TARGET", g, w, v)>>)
       /\ UNCHANGED <<lock, hw, gic_data, registry, ctl, edge_irqs>>

\* val |= 1 << (cpu + shift); writel(val, reg), shift = (d->irq % 4) * 8
gic_set_cpu_write(c) ==
    LET f == frame[c]
        g == gic_of(f.irq)
        w == gic_irq(f.irq) \div 4
        v == TargetVal(f.val, cpumask_first(f.mask_val), (f.irq % 4) * 8)
    IN /\ f.pc = "cpu_write"
       /\ target' = [target EXCEPT ![g][w] = v]
       /\ Advance(c, [f EXCEPT !.pc = "cpu_unlock"],
                  <<Acc("writel", "GIC_DIST_TARGET", g, w, v)>>)
       /\ UNCHANGED <<lock, enable, bank, config, gic_data, registry, ctl, edge_irqs>>

gic_set_cpu_unlock(c) ==
    /\ frame[c].pc = "cpu_unlock"
    /\ spin_unlock(c)
    /\ UNCHANGED <<hw, gic_data, registry, ctl, edge_irqs>>
    /\ Return(c, <<UnlockAcc>>, 0)

(***************************************************************************)
(* gic_handle_cascade_irq: irq is the primary controller's line the        *)
(* secondary controller irq_data[irq] is wired to; the primary's chip is   *)
(* gic_chip, so chip->irq_ack is gic_ack_irq and chip->irq_unmask is       *)
(* gic_unmask_irq.                                                         *)
(***************************************************************************)
\* a plausible fault: the lower limit of the shared-line window is off by one
CascadeBad_OffByOne(gicirq, cascade_irq) ==
    gicirq < 33 \/ gicirq > 1020 \/ cascade_irq >= NR_IRQS

\* gic_irq < 32 || gic_irq > 1020 || cascade_irq >= NR_IRQS
CascadeBad(gicirq, cascade_irq) ==
    gicirq < 32 \/ gicirq > 1020 \/ cascade_irq >= NR_IRQS

gic_handle_cascade_irq_call(c, irq) ==
    /\ Call(c, "gic_handle_cascade_irq",
            [IdleFrame EXCEPT !.pc = "casc_ack_lock", !.irq = irq,
                              !.gic_nr = irq_data[irq]])
    /\ UNCHANGED <<lock, hw, gic_data, registry, ctl, edge_irqs>>

\* chip->irq_ack(&desc->irq_data): gic_ack_irq of the primary line
gic_handle_cascade_irq_ack_lock(c) ==
    /\ frame[c].pc = "casc_ack_lock"
    /\ spin_lock(c)
    /\ Advance(c, [frame[c] EXCEPT !.pc = "casc_ack_write"], <<LockAcc>>)
    /\ UNCHANGED <<hw, gic_data, registry, ctl, edge_irqs>>

gic_handle_cascade_irq_ack_write(c) ==
    LET f == frame[c]
    IN /\ f.pc = "casc_ack_write"
       /\ Advance(c, [f EXCEPT !.pc = "casc_ack_unlock"],
                  <<Acc("writel", "GIC_CPU_EOI", gic_of(f.irq), 0, U32(gic_irq(f.irq)))>>)
       /\ UNCHANGED <<lock, hw, gic_data, registry, ctl, edge_irqs>>

gic_handle_cascade_irq_ack_unlock(c) ==
    /\ frame[c].pc = "casc_ack_unlock"
    /\ spin_unlock(c)
    /\ Advance(c, [frame[c] EXCEPT !.pc = "casc_lock"], <<UnlockAcc>>)
    /\ UNCHANGED <<hw, gic_data, registry, ctl, edge_irqs>>

gic_handle_cascade_irq_lock(c) ==
    /\ frame[c].pc = "casc_lock"
    /\ spin_lock(c)
    /\ Advance(c, [frame[c] EXCEPT !.pc = "casc_read"], <<LockAcc>>)
    /\ UNCHANGED <<hw, gic_data, registry, ctl, edge_irqs>>

\* status = readl(chip_data->cpu_base + GIC_CPU_INTACK): what the secondary
\* controller's CPU interface answers
gic_handle_cascade_irq_read(c, status) ==
    LET f == frame[c]
    IN /\ f.pc = "casc_read"
       /\ Advance(c, [f EXCEPT !.pc = "casc_unlock", !.status = status],
                  <<Acc("readl", "GIC_CPU_INTACK", f.gic_nr, status, U32(status))>>)
       /\ UNCHANGED <<lock, hw, gic_data, registry, ctl, edge_irqs>>

gic_handle_cascade_irq_unlock(c) ==
    /\ frame[c].pc = "casc_unlock"
    /\ spin_unlock(c)
    /\ Advance(c, [frame[c] EXCEPT !.pc = "casc_decode"], <<UnlockAcc>>)
    /\ UNCHANGED <<hw, gic_data, registry, ctl, edge_irqs>>

\* gic_irq = (status & 0x3ff)
CascadeGicIrq(status) == status % 1024
\* cascade_irq = gic_irq + chip_data->irq_offset
CascadeIrq(g, status) == CascadeGicIrq(status) + gic_data[g].irq_offset

\* a plausible fault: a spurious read returns at once instead of going to out
gic_handle_cascade_irq_spurious_NoUnmask(c) ==
    LET f == frame[c]
    IN /\ f.pc = "casc_decode"
       /\ CascadeGicIrq(f.status) = 1023
       /\ UNCHANGED <<lock, hw, gic_data, registry, ctl, edge_irqs>>
       /\ Return(c, <<>>, 0)

\* if (gic_irq == 1023) goto out
gic_handle_cascade_irq_spurious(c) ==
    LET f == frame[c]
    IN /\ f.pc = "casc_decode"
       /\ CascadeGicIrq(f.status) = 1023
       /\ Advance(c, [f EXCEPT !.pc = "casc_unmask_lock"], <<>>)
       /\ UNCHANGED <<lock, hw, gic_data, registry, ctl, edge_irqs>>

\* do_bad_IRQ(cascade_irq, desc)
gic_handle_cascade_irq_bad(c) ==
    LET f == frame[c]
    IN /\ f.pc = "casc_decode"
       /\ CascadeGicIrq(f.status) # 1023
       /\ CascadeBad(CascadeGicIrq(f.status), CascadeIrq(f.gic_nr, f.status))
       /\ Advance(c, [f EXCEPT !.pc = "casc_unmask_lock"],
                  <<Acc("call", "do_bad_IRQ", f.gic_nr, CascadeIrq(f.gic_nr, f.status), {})>>)
       /\ UNCHANGED <<lock, hw, gic_data, registry, ctl, edge_irqs>>

\* generic_handle_irq(cascade_irq)
gic_handle_cascade_irq_dispatch(c) ==
    LET f == frame[c]
    IN /\ f.pc = "casc_decode"
       /\ CascadeGicIrq(f.status) # 1023
       /\ ~CascadeBad(CascadeGicIrq(f.status), CascadeIrq(f.gic_nr, f.status))
       /\ Advance(c, [f EXCEPT !.pc = "casc_unmask_lock"],
                  <<Acc("call", "generic_handle_irq", f.gic_nr,
                        CascadeIrq(f.gic_nr, f.status), {})>>)
       /\ UNCHANGED <<lock, hw, gic_data, registry, ctl, edge_irqs>>

\* out: chip->irq_unmask(&desc->irq_data): gic_unmask_irq of the primary line
gic_handle_cascade_irq_unmask_lock(c) ==
    /\ frame[c].pc = "casc_unmask_lock"
    /\ spin_lock(c)
    /\ Advance(c, [frame[c] EXCEPT !.pc = "casc_unmask_write"], <<LockAcc>>)
    /\ UNCHANGED <<hw, gic_data, registry, ctl, edge_irqs>>

gic_handle_cascade_irq_unmask_write(c) ==
    LET f == frame[c]
        g == gic_of(f.irq)
        w == gic_irq(f.irq) \div 32
        v == IrqMask(f.irq)
    IN /\ f.pc = "casc_unmask_write"
       /\ writel_ENABLE_SET(g, c, w, v)
       /\ Advance(c, [f EXCEPT !.pc = "casc_unmask_unlock"],
                  <<Acc("writel", "GIC_DIST_ENABLE_SET", g, w, v)>>)
       /\ UNCHANGED <<lock, config, target, gic_data, registry, ctl, edge_irqs>>

gic_handle_cascade_irq_unmask_unlock(c) ==
    /\ frame[c].pc = "casc_unmask_unlock"
    /\ spin_unlock(c)
    /\ UNCHANGED <<hw, gic_data, registry, ctl, edge_irqs>>
    /\ Return(c, <<UnlockAcc>>, 0)

(***************************************************************************)
(* The state gic_init leaves, followed by any number of completed calls:   *)
(* controller g was initialised with irq_start starts[g] on core 0 and has *)
(* 32 * (MaxProbe + 1) lines; since then lines were unmasked (en, bk),     *)
(* made wakeup sources (wk), given a trigger type (cf: the PPI word 1 is   *)
(* never written by gic_dist_init and holds what the hardware reset left)  *)
(* and routed (tg).  The words not given hold what gic_init wrote.         *)
(***************************************************************************)
\* a plausible fault: the offset is not rounded down to a multiple of 32
IrqOffset_Unaligned(irq_start) == irq_start - 1

\* gic_init: gic->irq_offset = (irq_start - 1) & ~31, for irq_start >= 1
IrqOffset(irq_start) == ((irq_start - 1) \div 32) * 32
\* gic_dist_init: irq_limit = gic->irq_offset + gic_irqs, at most NR_IRQS
IrqLimit(offset, gic_irqs) ==
    IF offset + gic_irqs > NR_IRQS THEN NR_IRQS ELSE offset + gic_irqs
\* gic_dist_init: cpumask of the initialising core in every byte
InitTarget == {0, 8, 16, 24}
\* 0xa0a0a0a0, the priority gic_dist_init and gic_cpu_init give four lines
PRI_DEFAULT == {5, 7, 13, 15, 21, 23, 29, 31}
\* 0xf0, the priority mask gic_cpu_init writes
PRIMASK_ALL == BitRange(4, 7)

InitState(starts, en, bk, wk, cf1, cf2, tg, cascade, nodescs) ==
    /\ lock = {}
    /\ frame = [c \in Cores |-> IdleFrame]
    /\ hist = <<>>
    /\ enable = [g \in Gics |-> [w \in SharedWords |->
                    IF g = 0 /\ w = 1 THEN en ELSE {}]]
    /\ bank = [g \in Gics |-> [c \in Cores |->
                    IF g = 0 THEN bk ELSE BitRange(0, 15)]]
    /\ config = [g \in Gics |-> [w \in ConfigWords |->
                    IF g = 0 /\ w = 1 THEN cf1
                    ELSE IF g = 0 /\ w = 2 THEN cf2 ELSE {}]]
    /\ target = [g \in Gics |-> [w \in TargetWords |->
                    IF g = 0 /\ w = 8 THEN tg
                    ELSE IF w >= 8 THEN InitTarget ELSE {}]]
    /\ gic_data = [g \in Gics |->
                    [irq_offset |-> IrqOffset(starts[g]),
                     max_irq |-> GicIrqs(MaxProbe),
                     wakeup_irqs |-> [w \in EnableWords |->
                                        IF g = 0 /\ w = 1 THEN wk ELSE {}],
                     enabled_irqs |-> [w \in EnableWords |-> {}]]]
    /\ chip_data = [g \in Gics |->
                      [first |-> starts[g],
                       limit |-> IrqLimit(IrqOffset(starts[g]), GicIrqs(MaxProbe))]]
    /\ irq_data = cascade
    /\ no_desc = nodescs
    /\ edge_irqs = {}
    /\ dist_ctr = [g \in Gics |-> MaxProbe]
    /\ dist_ctrl = [g \in Gics |-> BIT(0)]
    /\ pri = [g \in Gics |-> [w \in TargetWords \ (0 .. 7) |-> PRI_DEFAULT]]
    /\ bank_pri = [g \in Gics |-> [c \in Cores |-> [w \in 0 .. 7 |-> PRI_DEFAULT]]]
    /\ cpu_ctrl = [g \in Gics |-> [c \in Cores |-> BIT(0)]]
    /\ cpu_primask = [g \in Gics |-> [c \in Cores |-> PRIMASK_ALL]]
    /\ pending = [g \in Gics |-> [w \in EnableWords |-> {}]]

\* controller 0 owns Linux irqs 1.., the others 64.., 128.., ...
DefaultStarts == [g \in Gics |-> IF g = 0 THEN 1 ELSE 64 * g]
NoneMissing == {}
NoCascade == [i \in {} |-> 0]

(***************************************************************************)
(* Suspend and resume, called one at a time, between masks and unmasks of  *)
(* a shared line.                                                          *)
(***************************************************************************)
PowerEnable == {{}, {1}, {1, 2}, {2, 9}}
PowerWake == {{}, {1}, {2}, {1, 3}}
PowerBank == {BitRange(0, 15), BitRange(0, 15) \cup {20}}
PowerIrqs == {33}

InitPower ==
    \E en \in PowerEnable, wk \in PowerWake, bk \in PowerBank :
        InitState(DefaultStarts, en, bk, wk, {}, {}, InitTarget, NoCascade, NoneMissing)

NextPower ==
    \E c \in Cores :
        \/ Sequential /\ \E g \in {0} : gic_suspend_call(c, g)
        \/ gic_suspend_read(c)
        \/ gic_suspend_clear(c)
        \/ gic_suspend_set(c)
        \/ Sequential /\ \E g \in {0} : gic_resume_call(c, g)
        \/ gic_resume_clear(c)
        \/ gic_resume_set(c)
        \/ Sequential /\ \E irq \in PowerIrqs : gic_mask_irq_call(c, irq)
        \/ gic_mask_irq_lock(c)
        \/ gic_mask_irq_write(c)
        \/ gic_mask_irq_unlock(c)
        \/ Sequential /\ \E irq \in PowerIrqs : gic_unmask_irq_call(c, irq)
        \/ gic_unmask_irq_lock(c)
        \/ gic_unmask_irq_write(c)
        \/ gic_unmask_irq_unlock(c)

SpecPower == InitPower /\ [][NextPower]_vars


(***************************************************************************)
(* Mask and unmask of a banked and of two shared lines, one at a time.     *)
(***************************************************************************)
MaskIrqs == {20, 33, 34}

InitMask ==
    \E en \in PowerEnable, bk \in PowerBank :
        InitState(DefaultStarts, en, bk, {}, {}, {}, InitTarget, NoCascade, NoneMissing)

NextMask ==
    \E c \in Cores :
        \/ Sequential /\ \E irq \in MaskIrqs : gic_mask_irq_call(c, irq)
        \/ gic_mask_irq_lock(c)
        \/ gic_mask_irq_write(c)
        \/ gic_mask_irq_unlock(c)
        \/ Sequential /\ \E irq \in MaskIrqs : gic_unmask_irq_call(c, irq)
        \/ gic_unmask_irq_lock(c)
        \/ gic_unmask_irq_write(c)
        \/ gic_unmask_irq_unlock(c)

SpecMask == InitMask /\ [][NextMask]_vars

(***************************************************************************)
(* gic_set_type, one call at a time: of an SGI (15), of a PPI (20), whose  *)
(* config word 1 holds what the hardware reset left, and of a shared line  *)
(* (33), with the line enabled or not.                                     *)
(***************************************************************************)
TypeCalls == {<<15, IRQ_TYPE_LEVEL_HIGH>>,
              <<20, IRQ_TYPE_EDGE_FALLING>>,
              <<20, IRQ_TYPE_LEVEL_HIGH>>, <<20, IRQ_TYPE_EDGE_RISING>>,
              <<33, IRQ_TYPE_LEVEL_HIGH>>, <<33, IRQ_TYPE_EDGE_RISING>>}
\* config word 1, lines 16..31: line 20 is bits 8 and 9
TypeConfig1 == {{}, {8}, {0, 8, 9, 11}}
\* config word 2, lines 32..47: line 33 is bits 2 and 3, line 34 bits 4 and 5
TypeConfig2 == {{}, {3, 5}}
TypeEnable == {{}, {1}}

InitType ==
    \E en \in TypeEnable, cf1 \in TypeConfig1, cf2 \in TypeConfig2 :
        InitState(DefaultStarts, en, BitRange(0, 15) \cup {20}, {}, cf1, cf2,
                  InitTarget, NoCascade, NoneMissing)

NextType ==
    \E c \in Cores :
        \/ Sequential /\ \E a \in TypeCalls : gic_set_type_call(c, a[1], a[2])
        \/ gic_set_type_einval(c)
        \/ gic_set_type_lock(c)
        \/ gic_set_type_read_conf(c)
        \/ gic_set_type_read_enable(c)
        \/ gic_set_type_disable(c)
        \/ gic_set_type_write_conf(c)
        \/ gic_set_type_enable(c)
        \/ gic_set_type_unlock(c)
        \/ gic_set_type_handler(c)

SpecType == InitType /\ [][NextType]_vars

(***************************************************************************)
(* gic_set_cpu, one call at a time: of a PPI (20) and of two shared lines  *)
(* of one target word (33, 34), one of which may have no descriptor.       *)
(***************************************************************************)
AffinityIrqs == {20, 33, 34}
AffinityMasks == {{NR_CPUS - 1}, Cores}
\* target word 8, lines 32..35, one byte each: all on core 0; 32, 33 on core 1
AffinityTarget == {InitTarget, {1, 9, 16, 24}}
AffinityNoDesc == {NoneMissing, {34}}

InitAffinity ==
    \E tg \in AffinityTarget, nd \in AffinityNoDesc :
        InitState(DefaultStarts, {1}, BitRange(0, 15), {}, {}, {}, tg, NoCascade, nd)

NextAffinity ==
    \E c \in Cores :
        \/ Sequential /\ \E irq \in AffinityIrqs, m \in AffinityMasks :
                            gic_set_cpu_call(c, irq, m)
        \/ gic_set_cpu_lock(c)
        \/ gic_set_cpu_nodesc(c)
        \/ gic_set_cpu_read(c)
        \/ gic_set_cpu_write(c)
        \/ gic_set_cpu_unlock(c)

SpecAffinity == InitAffinity /\ [][NextAffinity]_vars

(***************************************************************************)
(* gic_handle_cascade_irq, one call at a time: controller 1 is wired to    *)
(* line 34 of controller 0 and was given irq_start 64 or 96.               *)
(***************************************************************************)
CascadeWiring == [i \in {34} |-> 1]
CascadeStarts == {[g \in Gics |-> IF g = 0 THEN 1 ELSE 64 * g],
                  [g \in Gics |-> IF g = 0 THEN 1 ELSE 32 + 64 * g]}
\* GIC_CPU_INTACK: the line in bits 0..9, the source core in bits 10..12
CascadeStatus == {1023, 5, 31, 32, 40, 1000, 1020, 1021, 1022, 1024 + 40, 2047}

InitCascade ==
    \E starts \in CascadeStarts :
        InitState(starts, {1}, BitRange(0, 15), {}, {}, {}, InitTarget,
                  CascadeWiring, NoneMissing)

NextCascade ==
    \E c \in Cores :
        \/ Sequential /\ \E irq \in DOMAIN irq_data : gic_handle_cascade_irq_call(c, irq)
        \/ gic_handle_cascade_irq_ack_lock(c)
        \/ gic_handle_cascade_irq_ack_write(c)
        \/ gic_handle_cascade_irq_ack_unlock(c)
        \/ gic_handle_cascade_irq_lock(c)
        \/ \E status \in CascadeStatus : gic_handle_cascade_irq_read(c, status)
        \/ gic_handle_cascade_irq_unlock(c)
        \/ gic_handle_cascade_irq_spurious(c)
        \/ gic_handle_cascade_irq_bad(c)
        \/ gic_handle_cascade_irq_dispatch(c)
        \/ gic_handle_cascade_irq_unmask_lock(c)
        \/ gic_handle_cascade_irq_unmask_write(c)
        \/ gic_handle_cascade_irq_unmask_unlock(c)

SpecCascade == InitCascade /\ [][NextCascade]_vars

(***************************************************************************)
(* The cores call concurrently: mask, unmask, set_type and set_cpu of a    *)
(* shared line, set_wake of two lines of one word, suspend and resume.     *)
(***************************************************************************)
SmpIrqs == {33}
SmpWakeIrqs == {33, 34}
SmpWake == {{}, {2}}

Init ==
    \E wk \in SmpWake :
        InitState(DefaultStarts, {1}, BitRange(0, 15), wk, {}, {}, InitTarget,
                  NoCascade, NoneMissing)

Next ==
    \E c \in Cores :
        \/ \E irq \in SmpIrqs : gic_mask_irq_call(c, irq)
        \/ gic_mask_irq_lock(c)
        \/ gic_mask_irq_write(c)
        \/ gic_mask_irq_unlock(c)
        \/ \E irq \in SmpIrqs : gic_unmask_irq_call(c, irq)
        \/ gic_unmask_irq_lock(c)
        \/ gic_unmask_irq_write(c)
        \/ gic_unmask_irq_unlock(c)
        \/ \E irq \in SmpIrqs : gic_set_type_call(c, irq, IRQ_TYPE_EDGE_RISING)
        \/ gic_set_type_lock(c)
        \/ gic_set_type_read_conf(c)
        \/ gic_set_type_read_enable(c)
        \/ gic_set_type_disable(c)
        \/ gic_set_type_write_conf(c)
        \/ gic_set_type_enable(c)
        \/ gic_set_type_unlock(c)
        \/ gic_set_type_handler(c)
        \/ \E irq \in SmpIrqs : gic_set_cpu_call(c, irq, {NR_CPUS - 1})
        \/ gic_set_cpu_lock(c)
        \/ gic_set_cpu_read(c)
        \/ gic_set_cpu_write(c)
        \/ gic_set_cpu_unlock(c)
        \/ \E irq \in SmpWakeIrqs : gic_set_wake_call(c, irq, 1)
        \/ gic_set_wake_load(c)
        \/ gic_set_wake_store(c)
        \/ \E g \in {0} : gic_suspend_call(c, g)
        \/ gic_suspend_read(c)
        \/ gic_suspend_clear(c)
        \/ gic_suspend_set(c)
        \/ \E g \in {0} : gic_resume_call(c, g)
        \/ gic_resume_clear(c)
        \/ gic_resume_set(c)

Spec == Init /\ [][Next]_vars

(***************************************************************************)
(* What the claims speak of.                                               *)
(***************************************************************************)
\* the enable word w of controller g as core c reads it, in the snapshot s
ViewOf(s, g, c, w) == IF w = 0 THEN s.bank[g][c] ELSE s.enable[g][w]
\* the enable words below the controller's line count
WordsBelow(s, g) == {w \in EnableWords : w * 32 < s.gic_data[g].max_irq}
\* the calls of entry point op that have returned and overlapped no other call
SoloDone(op) == {k \in DOMAIN hist : hist[k].op = op /\ hist[k].done /\ hist[k].solo}

\* C2 as stated: after suspend returns, the enabled lines are those that were
\* enabled before and are in the wake set (E & W), and enabled_irqs holds E.
C2_SuspendLeavesEnabledAndWake ==
    \A k \in SoloDone("gic_suspend") :
        LET h == hist[k]
            g == h.gic_nr
        IN \A w \in WordsBelow(h.pre, g) :
              /\ ViewOf(h.post, g, h.cpu, w)
                    = ViewOf(h.pre, g, h.cpu, w) \cap h.pre.gic_data[g].wakeup_irqs[w]
              /\ h.post.gic_data[g].enabled_irqs[w] = ViewOf(h.pre, g, h.cpu, w)

\* C2 amended: after suspend returns, the enabled lines of every word below the
\* line count are exactly the wake set W, whether or not they were enabled
\* before, and enabled_irqs holds the lines E that were enabled before.
C2_SuspendLeavesWakeSet ==
    \A k \in SoloDone("gic_suspend") :
        LET h == hist[k]
            g == h.gic_nr
        IN \A w \in WordsBelow(h.pre, g) :
              /\ ViewOf(h.post, g, h.cpu, w) = h.pre.gic_data[g].wakeup_irqs[w]
              /\ h.post.gic_data[g].wakeup_irqs[w] = h.pre.gic_data[g].wakeup_irqs[w]
              /\ h.post.gic_data[g].enabled_irqs[w] = ViewOf(h.pre, g, h.cpu, w)

\* a suspend has returned on a controller with a line enabled and not a wake
\* source and a wake source that was not enabled
C2_Witness ==
    \E k \in SoloDone("gic_suspend") :
        LET h == hist[k]
            g == h.gic_nr
        IN \E w \in WordsBelow(h.pre, g) :
              /\ ViewOf(h.pre, g, h.cpu, w) \ h.pre.gic_data[g].wakeup_irqs[w] # {}
              /\ h.pre.gic_data[g].wakeup_irqs[w] \ ViewOf(h.pre, g, h.cpu, w) # {}
              /\ ViewOf(h.post, g, h.cpu, w) = h.pre.gic_data[g].wakeup_irqs[w]

\* a suspend and its resume with nothing between them
SuspendResumePairs ==
    {k \in SoloDone("gic_suspend") :
        /\ k + 1 \in SoloDone("gic_resume")
        /\ hist[k + 1].gic_nr = hist[k].gic_nr}

\* C3: when resume follows suspend with no call between them, every enable word
\* below the line count reads after resume as it read just before suspend.
C3_ResumeRestoresEnabled ==
    \A k \in SuspendResumePairs :
        LET s == hist[k]
            r == hist[k + 1]
            g == s.gic_nr
        IN \A w \in WordsBelow(s.pre, g) :
              ViewOf(r.post, g, r.cpu, w) = ViewOf(s.pre, g, s.cpu, w)

\* a resume has restored a word that suspend had changed
C3_Witness ==
    \E k \in SuspendResumePairs :
        LET s == hist[k]
            r == hist[k + 1]
            g == s.gic_nr
        IN \E w \in WordsBelow(s.pre, g) :
              /\ ViewOf(s.pre, g, s.cpu, w) # {}
              /\ ViewOf(s.post, g, s.cpu, w) # ViewOf(s.pre, g, s.cpu, w)
              /\ ViewOf(r.post, g, r.cpu, w) = ViewOf(s.pre, g, s.cpu, w)


(***************************************************************************)
(* C1.                                                                     *)
(***************************************************************************)
\* core c is between the first and the last access of a read-modify-write
\* sequence of mask, unmask, set_type, set_affinity, set_wake, suspend or resume
InSequence(c) ==
    \/ frame[c].pc \in {"mask_write", "unmask_write",
                        "type_read_conf", "type_read_enable", "type_disable",
                        "type_write_conf", "type_enable",
                        "cpu_desc", "cpu_write",
                        "wake_store",
                        "suspend_clear", "suspend_set", "resume_set"}
    \/ frame[c].pc \in {"suspend_read", "resume_clear"} /\ frame[c].i > 0

\* C1: every such sequence runs with the lock held by its core, so no two
\* cores are inside such sequences at once.
C1_MutualExclusion ==
    \A c, d \in Cores : c # d => ~(InSequence(c) /\ InSequence(d))

\* two cores are inside a sequence at once and one of them holds no lock
C1_Witness ==
    \E c, d \in Cores : c # d /\ InSequence(c) /\ InSequence(d) /\ c \notin lock

(***************************************************************************)
(* C4, C5: the cascade handler.                                            *)
(***************************************************************************)
Done(op) == {k \in DOMAIN hist : hist[k].op = op /\ hist[k].done}
\* the places in the accesses io of the accesses acc to reg
Places(io, acc, reg) == {n \in DOMAIN io : io[n].acc = acc /\ io[n].reg = reg}
\* the places of the calls of do_bad_IRQ and generic_handle_irq
CallPlaces(io) == {n \in DOMAIN io : io[n].acc = "call"}
\* the controller and the line number of irq in the snapshot s
LineOf(s, irq) == irq - s.gic_data[gic_of(irq)].irq_offset

\* C4: on every execution of the cascade handler the primary line is acked
\* exactly once, before the secondary's interrupt-acknowledge register is read,
\* and unmasked exactly once, after the read and after any dispatch or
\* malformed report, as the last register access; no call returns without it.
C4_CascadeBracket ==
    \A k \in Done("gic_handle_cascade_irq") :
        LET h == hist[k]
            io == h.io
            eoi == Places(io, "writel", "GIC_CPU_EOI")
            ack == Places(io, "readl", "GIC_CPU_INTACK")
            unm == Places(io, "writel", "GIC_DIST_ENABLE_SET")
            line == LineOf(h.pre, h.irq)
        IN /\ Cardinality(eoi) = 1 /\ Cardinality(ack) = 1 /\ Cardinality(unm) = 1
           /\ \A e \in eoi : /\ io[e].gic = gic_of(h.irq)
                             /\ io[e].val = U32(line)
                             /\ \A a \in ack : e < a /\ io[a].gic = h.gic_nr
           /\ \A u \in unm : /\ io[u].gic = gic_of(h.irq)
                             /\ io[u].idx = line \div 32
                             /\ io[u].val = BIT(line % 32)
                             /\ \A a \in ack \cup CallPlaces(io) : a < u
                             /\ \A n \in DOMAIN io :
                                   n > u => io[n].acc = "spin_unlock"
           /\ BIT(line % 32) \subseteq ViewOf(h.post, gic_of(h.irq), h.cpu, line \div 32)

\* a spurious, a malformed and a dispatched cascade have each returned
C4_Witness ==
    /\ \E k \in Done("gic_handle_cascade_irq") : CallPlaces(hist[k].io) = {}
    /\ \E k \in Done("gic_handle_cascade_irq") :
          \E n \in CallPlaces(hist[k].io) : hist[k].io[n].reg = "do_bad_IRQ"

\* the calls the handler made, in order
CascadeCalls(io) == SelectSeq(io, LAMBDA a : a.acc = "call")
\* what the handler read from GIC_CPU_INTACK
CascadeRead(io) == io[CHOOSE n \in DOMAIN io : io[n].reg = "GIC_CPU_INTACK"].idx

\* C5: with v the low 10 bits of the value read, v = 1023 dispatches and
\* reports nothing; 32 <= v <= 1020 with v + irq_offset below NR_IRQS
\* dispatches exactly line v + irq_offset; every other v reports a malformed
\* interrupt and dispatches nothing.
C5_CascadeOutcome ==
    \A k \in Done("gic_handle_cascade_irq") :
        LET h == hist[k]
            v == CascadeRead(h.io) % 1024
            off == h.pre.gic_data[h.gic_nr].irq_offset
            calls == CascadeCalls(h.io)
        IN IF v = 1023 THEN calls = <<>>
           ELSE IF 32 <= v /\ v <= 1020 /\ v + off < NR_IRQS
           THEN /\ Len(calls) = 1
                /\ calls[1].reg = "generic_handle_irq"
                /\ calls[1].idx = v + off
           ELSE /\ Len(calls) = 1
                /\ calls[1].reg = "do_bad_IRQ"

\* the value 40 was read from a controller with irq_offset 32 and line 72 was
\* dispatched
C5_Witness ==
    \E k \in Done("gic_handle_cascade_irq") :
        LET h == hist[k]
        IN /\ CascadeRead(h.io) % 1024 = 40
           /\ h.pre.gic_data[h.gic_nr].irq_offset = 32
           /\ CascadeCalls(h.io) = <<Acc("call", "generic_handle_irq", h.gic_nr, 72, {})>>

(***************************************************************************)
(* C6: mask and unmask.                                                    *)
(***************************************************************************)
\* is the line of irq enabled, as core c reads it, in the snapshot s
EnableBit(s, irq, c) ==
    BIT(LineOf(s, irq) % 32) \subseteq ViewOf(s, gic_of(irq), c, LineOf(s, irq) \div 32)

\* a call of first and then a call of second for the same shared line, with
\* nothing between them
LinePairs(first, second) ==
    {k \in SoloDone(first) :
        /\ k + 1 \in SoloDone(second)
        /\ hist[k + 1].irq = hist[k].irq
        /\ LineOf(hist[k].pre, hist[k].irq) >= 32}

\* C6 as stated: mask then unmask, and unmask then mask, leave the enable bit
\* as it was before the pair.
C6_PairRestoresEnableBit ==
    /\ \A k \in LinePairs("gic_mask_irq", "gic_unmask_irq") :
          EnableBit(hist[k + 1].post, hist[k].irq, hist[k + 1].cpu)
             = EnableBit(hist[k].pre, hist[k].irq, hist[k].cpu)
    /\ \A k \in LinePairs("gic_unmask_irq", "gic_mask_irq") :
          EnableBit(hist[k + 1].post, hist[k].irq, hist[k + 1].cpu)
             = EnableBit(hist[k].pre, hist[k].irq, hist[k].cpu)

\* C6 amended: mask then unmask leaves the enable bit set and unmask then mask
\* leaves it clear, whatever it was before; so the pair restores the bit only
\* of a line that was enabled before mask, or disabled before unmask.
C6_LastOfPairDecides ==
    /\ \A k \in LinePairs("gic_mask_irq", "gic_unmask_irq") :
          /\ ~EnableBit(hist[k].post, hist[k].irq, hist[k].cpu)
          /\ EnableBit(hist[k + 1].post, hist[k].irq, hist[k + 1].cpu)
    /\ \A k \in LinePairs("gic_unmask_irq", "gic_mask_irq") :
          /\ EnableBit(hist[k].post, hist[k].irq, hist[k].cpu)
          /\ ~EnableBit(hist[k + 1].post, hist[k].irq, hist[k + 1].cpu)

\* a disabled shared line was masked and then unmasked, and is enabled
C6_Witness ==
    \E k \in LinePairs("gic_mask_irq", "gic_unmask_irq") :
        /\ ~EnableBit(hist[k].pre, hist[k].irq, hist[k].cpu)
        /\ EnableBit(hist[k + 1].post, hist[k].irq, hist[k + 1].cpu)

(***************************************************************************)
(* C7, C8: set_type.                                                       *)
(***************************************************************************)
\* C7: set_type of a line below 16, or with a type that is neither level-high
\* nor edge-rising, returns -EINVAL, changes no register, snapshot or handler,
\* and makes no access at all, the lock included.
C7_SetTypeRejects ==
    \A k \in Done("gic_set_type") :
        LET h == hist[k]
        IN (\/ LineOf(h.pre, h.irq) < 16
            \/ h.type \notin {IRQ_TYPE_LEVEL_HIGH, IRQ_TYPE_EDGE_RISING})
           => /\ h.ret = -EINVAL
              /\ h.post = h.pre
              /\ h.io = <<>>

\* a set_type of an SGI and a set_type with a falling-edge type have returned
C7_Witness ==
    /\ \E k \in Done("gic_set_type") :
          LineOf(hist[k].pre, hist[k].irq) < 16 /\ hist[k].ret = -EINVAL
    /\ \E k \in Done("gic_set_type") :
          /\ LineOf(hist[k].pre, hist[k].irq) >= 16
          /\ hist[k].type = IRQ_TYPE_EDGE_FALLING
          /\ hist[k].ret = -EINVAL

\* the two bits of the line's field in its config word
FieldBits(line) == {2 * (line % 16), 2 * (line % 16) + 1}
\* the line's 2-bit field in the snapshot s: {} is 00, {0} is 01, {1} is 10
Field(s, irq) ==
    {b - 2 * (LineOf(s, irq) % 16) :
        b \in s.config[gic_of(irq)][LineOf(s, irq) \div 16] \cap FieldBits(LineOf(s, irq))}
\* the config registers but for the line's field
OtherFields(s, irq) ==
    [g \in Gics |-> [w \in ConfigWords |->
        IF g = gic_of(irq) /\ w = LineOf(s, irq) \div 16
        THEN s.config[g][w] \ FieldBits(LineOf(s, irq))
        ELSE s.config[g][w]]]

\* set_type(irq, first) and then set_type(irq, second), both successful, with
\* nothing between them
TypePairs(first, second) ==
    {k \in SoloDone("gic_set_type") :
        /\ k + 1 \in SoloDone("gic_set_type")
        /\ hist[k + 1].irq = hist[k].irq
        /\ hist[k].type = first /\ hist[k + 1].type = second
        /\ LineOf(hist[k].pre, hist[k].irq) >= 16}

ByteBits(line) == BitRange(8 * (line % 4), 8 * (line % 4) + 7)
\* the target byte of the line, as the set of cores it names, in the snapshot s
TargetByte(s, g, line) ==
    {b - 8 * (line % 4) : b \in s.target[g][line \div 4] \cap ByteBits(line)}
\* the target registers but for the line's byte
OtherBytes(s, irq) ==
    [g \in Gics |-> [w \in TargetWords |->
        IF g = gic_of(irq) /\ w = LineOf(s, irq) \div 4
        THEN s.target[g][w] \ ByteBits(LineOf(s, irq))
        ELSE s.target[g][w]]]

\* C10: after a successful set_affinity of a shared line the line's target
\* byte is 1 << c, c the lowest core of the mask, whatever it was before, and
\* the target byte of every other line is unchanged.
C10_TargetByteIsFirstCpu ==
    \A k \in Done("gic_set_cpu") :
        LET h == hist[k]
            line == LineOf(h.pre, h.irq)
        IN (h.ret = 0 /\ line >= 32 /\ h.mask_val # {}
                /\ \A x \in h.mask_val : x \in 0 .. 7)
           => /\ \E x \in h.mask_val :
                    /\ \A y \in h.mask_val : x <= y
                    /\ TargetByte(h.post, gic_of(h.irq), line) = {x}
              /\ OtherBytes(h.post, h.irq) = OtherBytes(h.pre, h.irq)

\* a successful set_affinity has moved a shared line from one core to another
C10_Witness ==
    \E k \in Done("gic_set_cpu") :
        LET h == hist[k]
            line == LineOf(h.pre, h.irq)
        IN /\ h.ret = 0 /\ line >= 32
           /\ Cardinality(h.mask_val) > 1
           /\ TargetByte(h.pre, gic_of(h.irq), line) # {}
           /\ TargetByte(h.pre, gic_of(h.irq), line) # TargetByte(h.post, gic_of(h.irq), line)

(***************************************************************************)
(* gic_set_wake, one call at a time, of a PPI (20) and of two shared lines *)
(* of one word (33, 34), setting and clearing the wake bit.                *)
(***************************************************************************)
WakeIrqs == {20, 33, 34}
WakeOn == {0, 1}
WakeSets == {{}, {1}, {2, 9}}

InitWake ==
    \E wk \in WakeSets :
        InitState(DefaultStarts, {1}, BitRange(0, 15), wk, {}, {}, InitTarget,
                  NoCascade, NoneMissing)

NextWake ==
    \E c \in Cores :
        \/ Sequential /\ \E irq \in WakeIrqs, on \in WakeOn : gic_set_wake_call(c, irq, on)
        \/ gic_set_wake_load(c)
        \/ gic_set_wake_store(c)

SpecWake == InitWake /\ [][NextWake]_vars

(***************************************************************************)
(* C11: set_wake.                                                          *)
(***************************************************************************)
\* the calls of entry point op, returned or not
Calls(op) == {k \in DOMAIN hist : hist[k].op = op}
\* the wake sets of all controllers in the snapshot s
WakeOf(s) == [g \in Gics |-> s.gic_data[g].wakeup_irqs]

\* C11: set_wake of a line below 32 faults, it never returns, and leaves the
\* wake sets unchanged; set_wake of a line from 32 on sets (on) or clears
\* (off) the line's bit in wakeup_irqs and leaves every other wake bit as it was.
C11_SetWakeFaultsBelow32 ==
    \A k \in Calls("gic_set_wake") :
        LET h == hist[k]
            line == LineOf(h.pre, h.irq)
            g == gic_of(h.irq)
        IN IF line < 32
           THEN ~h.done /\ (Sequential => WakeOf(Snap) = WakeOf(h.pre))
           ELSE (h.done /\ h.solo) =>
                    WakeOf(h.post) =
                        [WakeOf(h.pre) EXCEPT ![g][line \div 32] =
                            IF h.on # 0 THEN @ \cup {line % 32} ELSE @ \ {line % 32}]

\* a set_wake of a line below 32 has returned 0 after the warning, with the
\* line's bit set in wakeup_irqs[0]
C11_Witness ==
    \E k \in Calls("gic_set_wake") :
        LET h == hist[k]
            line == LineOf(h.pre, h.irq)
        IN /\ line < 32 /\ h.done /\ h.ret = 0
           /\ \E n \in DOMAIN h.io : h.io[n].acc = "WARN_ON"
           /\ line \in h.post.gic_data[gic_of(h.irq)].wakeup_irqs[0]
           /\ line \notin h.pre.gic_data[gic_of(h.irq)].wakeup_irqs[0]

(***************************************************************************)
(* gic_raise_softirq: map is the first word of the cpumask, bit c for core *)
(* c; one write to GIC_DIST_SOFTINT of controller 0, then mb().            *)
(***************************************************************************)
\* a plausible fault: the target list is put at bit 8
SoftintVal_Shift8(map, irq) == Shl(map, 8) \cup U32(irq)

\* map << 16 | irq
SoftintVal(map, irq) == Shl(map, 16) \cup U32(irq)

gic_raise_softirq_call(c, map, irq) ==
    /\ Call(c, "gic_raise_softirq", [IdleFrame EXCEPT !.pc = "softirq_write",
                                        !.irq = irq, !.mask_val = map])
    /\ UNCHANGED <<lock, hw, gic_data, registry, ctl, edge_irqs>>

\* writel(map << 16 | irq, gic_data[0].dist_base + GIC_DIST_SOFTINT); mb()
gic_raise_softirq_write(c) ==
    LET f == frame[c]
    IN /\ f.pc = "softirq_write"
       /\ UNCHANGED <<lock, hw, gic_data, registry, ctl, edge_irqs>>
       /\ Return(c, <<Acc("writel", "GIC_DIST_SOFTINT", 0, 0,
                          SoftintVal(f.mask_val, f.irq)),
                      Acc("mb", "", 0, 0, {})>>, 0)

(***************************************************************************)
(* gic_raise_softirq, one call at a time, of SGIs 0, 9 and 15 to no core,  *)
(* one core, cores 2 and 5, and all eight cores of a byte-wide mask.       *)
(***************************************************************************)
InitSoftirq ==
    InitState(DefaultStarts, {1}, BitRange(0, 15), {}, {}, {}, InitTarget,
              NoCascade, NoneMissing)

NextSoftirq ==
    \E c \in Cores :
        \/ /\ Sequential
           /\ \E map \in {{}, {0}, {NR_CPUS - 1}, {2, 5}, BitRange(0, 7)},
                 irq \in {0, 9, 15} : gic_raise_softirq_call(c, map, irq)
        \/ gic_raise_softirq_write(c)

SpecSoftirq == InitSoftirq /\ [][NextSoftirq]_vars

(***************************************************************************)
(* C12: raise_signal.                                                      *)
(***************************************************************************)
\* the register writes in the access log io
Writes(io) == {n \in DOMAIN io : io[n].acc = "writel"}

\* C12: raise_signal(M, line), M a set of cores 0..7 and line in 0..15, makes
\* exactly one write, to GIC_DIST_SOFTINT of controller 0; the word written has
\* bit 16 + c set for exactly the cores c of M and its low 10 bits are the line;
\* no enable, config, target or snapshot state changes.
C12_SoftintEncodesMaskAndLine ==
    \A k \in Done("gic_raise_softirq") :
        LET h == hist[k]
        IN (h.mask_val \subseteq 0 .. 7 /\ h.irq \in 0 .. 15)
           => /\ Cardinality(Writes(h.io)) = 1
              /\ \A n \in Writes(h.io) :
                    /\ h.io[n].reg = "GIC_DIST_SOFTINT" /\ h.io[n].gic = 0
                    /\ h.io[n].val \cap BitRange(16, 31) = {16 + x : x \in h.mask_val}
                    /\ h.io[n].val \cap BitRange(0, 9) = U32(h.irq)
              /\ h.post = h.pre

\* a signal for line 9 to cores 2 and 5 has been written with bits 18 and 21
C12_Witness ==
    \E k \in Done("gic_raise_softirq") :
        /\ hist[k].mask_val = {2, 5} /\ hist[k].irq = 9
        /\ \E n \in Writes(hist[k].io) : hist[k].io[n].val = {0, 3, 18, 21}

(***************************************************************************)
(* gic_init: gic_dist_init and gic_cpu_init of controller gic_nr on the    *)
(* calling core.  A loop of register writes is one step; each write of it  *)
(* is in the access log.  The locals: irq is irq_start, i is gic_irqs.     *)
(***************************************************************************)
\* the words a loop  for (i = 32; i < gic_irqs; i += step)  addresses, step
\* lines a word
LoopWords(gic_irqs, step) ==
    {i \div step : i \in {j \in 32 .. (gic_irqs - 1) : j % step = 0}}

\* the accesses  writel(v, reg word w)  of a loop over the words ws, in order
LoopAccs(reg, g, ws, v) ==
    LET first == CHOOSE w \in ws : \A x \in ws : w <= x
    IN IF ws = {} THEN <<>>
       ELSE [n \in 1 .. Cardinality(ws) |-> Acc("writel", reg, g, first + n - 1, v)]

\* cpumask = 1 << smp_processor_id(); cpumask |= cpumask << 8;
\* cpumask |= cpumask << 16
CpuMask(c) ==
    LET m == BIT(c) \cup Shl(BIT(c), 8)
    IN m \cup Shl(m, 16)

gic_init_call(c, g, irq_start) ==
    /\ Call(c, "gic_init", [IdleFrame EXCEPT !.pc = "init_offset", !.gic_nr = g,
                                             !.irq = irq_start])
    /\ UNCHANGED <<lock, hw, gic_data, registry, ctl, edge_irqs>>

\* gic->irq_offset = (irq_start - 1) & ~31
gic_init_offset(c) ==
    LET f == frame[c]
    IN /\ f.pc = "init_offset"
       /\ gic_data' = [gic_data EXCEPT ![f.gic_nr].irq_offset = IrqOffset(f.irq)]
       /\ Advance(c, [f EXCEPT !.pc = "dist_ctrl_off"], <<>>)
       /\ UNCHANGED <<lock, hw, registry, ctl, edge_irqs>>

\* a plausible fault: the distributor is not disabled before it is set up
gic_dist_init_ctrl_off_Skipped(c) ==
    /\ frame[c].pc = "dist_ctrl_off"
    /\ Advance(c, [frame[c] EXCEPT !.pc = "dist_probe"], <<>>)
    /\ UNCHANGED <<lock, hw, gic_data, registry, ctl, edge_irqs>>

\* writel(0, base + GIC_DIST_CTRL)
gic_dist_init_ctrl_off(c) ==
    LET f == frame[c]
    IN /\ f.pc = "dist_ctrl_off"
       /\ dist_ctrl' = [dist_ctrl EXCEPT ![f.gic_nr] = {}]
       /\ Advance(c, [f EXCEPT !.pc = "dist_probe"],
                  <<Acc("writel", "GIC_DIST_CTRL", f.gic_nr, 0, {})>>)
       /\ UNCHANGED <<lock, hw, gic_data, registry, edge_irqs, dist_ctr, pri,
                      bank_pri, cpu_ctrl, cpu_primask, pending>>

\* gic_irqs = readl(base + GIC_DIST_CTR) & 0x1f; (gic_irqs + 1) * 32, at most 1020
gic_dist_init_probe(c) ==
    LET f == frame[c]
    IN /\ f.pc = "dist_probe"
       /\ Advance(c, [f EXCEPT !.pc = "dist_config", !.i = GicIrqs(dist_ctr[f.gic_nr])],
                  <<Acc("readl", "GIC_DIST_CTR", f.gic_nr, 0, U32(dist_ctr[f.gic_nr]))>>)
       /\ UNCHANGED <<lock, hw, gic_data, registry, ctl, edge_irqs>>

\* for (i = 32; i < gic_irqs; i += 16) writel(0, base + GIC_DIST_CONFIG + i * 4 / 16)
gic_dist_init_config(c) ==
    LET f == frame[c]
        g == f.gic_nr
        ws == LoopWords(f.i, 16)
    IN /\ f.pc = "dist_config"
       /\ config' = [config EXCEPT ![g] = [w \in DOMAIN @ |-> IF w \in ws THEN {} ELSE @[w]]]
       /\ Advance(c, [f EXCEPT !.pc = "dist_target"], LoopAccs("GIC_DIST_CONFIG", g, ws, {}))
       /\ UNCHANGED <<lock, enable, bank, target, gic_data, registry, ctl, edge_irqs>>

\* for (i = 32; i < gic_irqs; i += 4) writel(cpumask, base + GIC_DIST_TARGET + i * 4 / 4)
gic_dist_init_target(c) ==
    LET f == frame[c]
        g == f.gic_nr
        ws == LoopWords(f.i, 4)
    IN /\ f.pc = "dist_target"
       /\ target' = [target EXCEPT ![g] =
                        [w \in DOMAIN @ |-> IF w \in ws THEN CpuMask(c) ELSE @[w]]]
       /\ Advance(c, [f EXCEPT !.pc = "dist_pri"],
                  LoopAccs("GIC_DIST_TARGET", g, ws, CpuMask(c)))
       /\ UNCHANGED <<lock, enable, bank, config, gic_data, registry, ctl, edge_irqs>>

\* for (i = 32; i < gic_irqs; i += 4) writel(0xa0a0a0a0, base + GIC_DIST_PRI + i * 4 / 4)
gic_dist_init_pri(c) ==
    LET f == frame[c]
        g == f.gic_nr
        ws == LoopWords(f.i, 4)
    IN /\ f.pc = "dist_pri"
       /\ pri' = [pri EXCEPT ![g] =
                     [w \in DOMAIN @ |-> IF w \in ws THEN PRI_DEFAULT ELSE @[w]]]
       /\ Advance(c, [f EXCEPT !.pc = "dist_disable"],
                  LoopAccs("GIC_DIST_PRI", g, ws, PRI_DEFAULT))
       /\ UNCHANGED <<lock, hw, gic_data, registry, edge_irqs, dist_ctr, dist_ctrl,
                      bank_pri, cpu_ctrl, cpu_primask, pending>>

\* for (i = 32; i < gic_irqs; i += 32)
\*     writel(0xffffffff, base + GIC_DIST_ENABLE_CLEAR + i * 4 / 32)
gic_dist_init_disable(c) ==
    LET f == frame[c]
        g == f.gic_nr
        ws == LoopWords(f.i, 32)
    IN /\ f.pc = "dist_disable"
       /\ enable' = [enable EXCEPT ![g] =
                        [w \in DOMAIN @ |-> IF w \in ws THEN @[w] \ ALL_ONES ELSE @[w]]]
       /\ Advance(c, [f EXCEPT !.pc = "dist_register"],
                  LoopAccs("GIC_DIST_ENABLE_CLEAR", g, ws, ALL_ONES))
       /\ UNCHANGED <<lock, bank, config, target, gic_data, registry, ctl, edge_irqs>>

\* irq_limit = gic->irq_offset + gic_irqs, at most NR_IRQS; the irqs
\* irq_start .. irq_limit - 1 get gic_chip, this controller as chip data and
\* handle_level_irq; gic->max_irq = gic_irqs
gic_dist_init_register(c) ==
    LET f == frame[c]
        g == f.gic_nr
        irq_limit == IrqLimit(gic_data[g].irq_offset, f.i)
    IN /\ f.pc = "dist_register"
       /\ chip_data' = [chip_data EXCEPT ![g] = [first |-> f.irq, limit |-> irq_limit]]
       /\ edge_irqs' = edge_irqs \ (f.irq .. (irq_limit - 1))
       /\ gic_data' = [gic_data EXCEPT ![g].max_irq = f.i]
       /\ Advance(c, [f EXCEPT !.pc = "dist_ctrl_on"],
                  IF gic_data[g].irq_offset + f.i > NR_IRQS
                  THEN <<Acc("WARN_ON", "irq_limit > NR_IRQS", g, 0, {})>> ELSE <<>>)
       /\ UNCHANGED <<lock, hw, irq_data, no_desc, ctl>>

\* writel(1, base + GIC_DIST_CTRL); mb()
gic_dist_init_ctrl_on(c) ==
    LET f == frame[c]
    IN /\ f.pc = "dist_ctrl_on"
       /\ dist_ctrl' = [dist_ctrl EXCEPT ![f.gic_nr] = U32(1)]
       /\ Advance(c, [f EXCEPT !.pc = "cpu_ppi"],
                  <<Acc("writel", "GIC_DIST_CTRL", f.gic_nr, 0, U32(1)),
                    Acc("mb", "", 0, 0, {})>>)
       /\ UNCHANGED <<lock, hw, gic_data, registry, edge_irqs, dist_ctr, pri,
                      bank_pri, cpu_ctrl, cpu_primask, pending>>

(***************************************************************************)
(* gic_cpu_init, the tail of gic_init and the whole of gic_secondary_init: *)
(* the banked registers of the calling core.                               *)
(***************************************************************************)
gic_secondary_init_call(c, g) ==
    /\ Call(c, "gic_secondary_init", [IdleFrame EXCEPT !.pc = "cpu_ppi", !.gic_nr = g])
    /\ UNCHANGED <<lock, hw, gic_data, registry, ctl, edge_irqs>>

\* writel(0xffff0000, dist_base + GIC_DIST_ENABLE_CLEAR)
gic_cpu_init_ppi(c) ==
    LET f == frame[c]
        g == f.gic_nr
    IN /\ f.pc = "cpu_ppi"
       /\ writel_ENABLE_CLEAR(g, c, 0, BitRange(16, 31))
       /\ Advance(c, [f EXCEPT !.pc = "cpu_sgi"],
                  <<Acc("writel", "GIC_DIST_ENABLE_CLEAR", g, 0, BitRange(16, 31))>>)
       /\ UNCHANGED <<lock, config, target, gic_data, registry, ctl, edge_irqs>>

\* writel(0x0000ffff, dist_base + GIC_DIST_ENABLE_SET)
gic_cpu_init_sgi(c) ==
    LET f == frame[c]
        g == f.gic_nr
    IN /\ f.pc = "cpu_sgi"
       /\ writel_ENABLE_SET(g, c, 0, BitRange(0, 15))
       /\ Advance(c, [f EXCEPT !.pc = "cpu_pri"],
                  <<Acc("writel", "GIC_DIST_ENABLE_SET", g, 0, BitRange(0, 15))>>)
       /\ UNCHANGED <<lock, config, target, gic_data, registry, ctl, edge_irqs>>

\* for (i = 0; i < 32; i += 4) writel(0xa0a0a0a0, dist_base + GIC_DIST_PRI + i * 4 / 4)
gic_cpu_init_pri(c) ==
    LET f == frame[c]
        g == f.gic_nr
    IN /\ f.pc = "cpu_pri"
       /\ bank_pri' = [bank_pri EXCEPT ![g][c] = [w \in 0 .. 7 |-> PRI_DEFAULT]]
       /\ Advance(c, [f EXCEPT !.pc = "cpu_primask"],
                  LoopAccs("GIC_DIST_PRI", g, 0 .. 7, PRI_DEFAULT))
       /\ UNCHANGED <<lock, hw, gic_data, registry, edge_irqs, dist_ctr, dist_ctrl,
                      pri, cpu_ctrl, cpu_primask, pending>>

\* writel(0xf0, base + GIC_CPU_PRIMASK)
gic_cpu_init_primask(c) ==
    LET f == frame[c]
        g == f.gic_nr
    IN /\ f.pc = "cpu_primask"
       /\ cpu_primask' = [cpu_primask EXCEPT ![g][c] = PRIMASK_ALL]
       /\ Advance(c, [f EXCEPT !.pc = "cpu_ctrl"],
                  <<Acc("writel", "GIC_CPU_PRIMASK", g, 0, PRIMASK_ALL)>>)
       /\ UNCHANGED <<lock, hw, gic_data, registry, edge_irqs, dist_ctr, dist_ctrl,
                      pri, bank_pri, cpu_ctrl, pending>>

\* a plausible fault: dist_base is taken for base, and offset 0 of it is
\* GIC_DIST_CTRL
gic_cpu_init_ctrl_WrongBase(c) ==
    LET f == frame[c]
        g == f.gic_nr
    IN /\ f.pc = "cpu_ctrl"
       /\ dist_ctrl' = [dist_ctrl EXCEPT ![g] = U32(1)]
       /\ UNCHANGED <<lock, hw, gic_data, registry, edge_irqs, dist_ctr, cpu_ctrl,
                      pri, bank_pri, cpu_primask, pending>>
       /\ Return(c, <<Acc("writel", "GIC_DIST_CTRL", g, 0, U32(1)),
                      Acc("mb", "", 0, 0, {})>>, 0)

\* writel(1, base + GIC_CPU_CTRL); mb(); and the return of gic_init or
\* gic_secondary_init
gic_cpu_init_ctrl(c) ==
    LET f == frame[c]
        g == f.gic_nr
    IN /\ f.pc = "cpu_ctrl"
       /\ cpu_ctrl' = [cpu_ctrl EXCEPT ![g][c] = U32(1)]
       /\ UNCHANGED <<lock, hw, gic_data, registry, edge_irqs, dist_ctr, dist_ctrl,
                      pri, bank_pri, cpu_primask, pending>>
       /\ Return(c, <<Acc("writel", "GIC_CPU_CTRL", g, 0, U32(1)),
                      Acc("mb", "", 0, 0, {})>>, 0)

(***************************************************************************)
(* The hardware before gic_init: each controller has 32 * (f + 1) lines,   *)
(* f its line-count field, and registers that hold zeroes or, dirty, ones  *)
(* in every bit; the CPU interfaces are off, gic_data[] is zeroed and no   *)
(* irq has a chip.                                                         *)
(***************************************************************************)
ResetState(f, dirty) ==
    LET r == IF dirty THEN ALL_ONES ELSE {}
    IN /\ lock = {}
       /\ frame = [c \in Cores |-> IdleFrame]
       /\ hist = <<>>
       /\ dist_ctr = [g \in Gics |-> f]
       /\ enable = [g \in Gics |-> [w \in 1 .. f |-> r]]
       /\ bank = [g \in Gics |-> [c \in Cores |-> r]]
       /\ config = [g \in Gics |-> [w \in 0 .. (2 * (f + 1) - 1) |-> r]]
       /\ target = [g \in Gics |-> [w \in 0 .. (8 * (f + 1) - 1) |-> r]]
       /\ pri = [g \in Gics |-> [w \in 8 .. (8 * (f + 1) - 1) |-> r]]
       /\ bank_pri = [g \in Gics |-> [c \in Cores |-> [w \in 0 .. 7 |-> r]]]
       /\ dist_ctrl = [g \in Gics |-> r \cap BIT(0)]
       /\ cpu_ctrl = [g \in Gics |-> [c \in Cores |-> {}]]
       /\ cpu_primask = [g \in Gics |-> [c \in Cores |-> r \cap BitRange(0, 7)]]
       /\ pending = [g \in Gics |-> [w \in 0 .. f |-> {}]]
       /\ gic_data = [g \in Gics |->
                       [irq_offset |-> 0, max_irq |-> 0,
                        wakeup_irqs |-> [w \in 0 .. f |-> {}],
                        enabled_irqs |-> [w \in 0 .. f |-> {}]]]
       /\ chip_data = [g \in Gics |-> [first |-> 0, limit |-> 0]]
       /\ irq_data = NoCascade
       /\ no_desc = NoneMissing
       /\ edge_irqs = {}

\* the line-count fields tried: no shared line, MaxProbe words of shared
\* lines, and the largest, 31, which is past the 1020 lines a GIC can have
ProbeFields == {0, MaxProbe, 31}

(***************************************************************************)
(* gic_init of each controller once, on any core, from either of two       *)
(* irq_start, and gic_secondary_init of a controller that gic_init has set *)
(* up, on a core whose CPU interface is still off.                         *)
(***************************************************************************)
InitBoot == \E f \in ProbeFields, dirty \in BOOLEAN : ResetState(f, dirty)

NextBoot ==
    \E c \in Cores :
        \/ /\ Sequential
           /\ \E g \in Gics, irq_start \in {1, 65} :
                 gic_data[g].max_irq = 0 /\ gic_init_call(c, g, irq_start)
        \/ /\ Sequential
           /\ \E g \in Gics :
                 /\ gic_data[g].max_irq # 0 /\ cpu_ctrl[g][c] = {}
                 /\ gic_secondary_init_call(c, g)
        \/ gic_init_offset(c)
        \/ gic_dist_init_ctrl_off(c)
        \/ gic_dist_init_probe(c)
        \/ gic_dist_init_config(c)
        \/ gic_dist_init_target(c)
        \/ gic_dist_init_pri(c)
        \/ gic_dist_init_disable(c)
        \/ gic_dist_init_register(c)
        \/ gic_dist_init_ctrl_on(c)
        \/ gic_cpu_init_ppi(c)
        \/ gic_cpu_init_sgi(c)
        \/ gic_cpu_init_pri(c)
        \/ gic_cpu_init_primask(c)
        \/ gic_cpu_init_ctrl(c)

SpecBoot == InitBoot /\ [][NextBoot]_vars

(***************************************************************************)
(* C13, C14: initialisation.                                               *)
(***************************************************************************)
\* core c runs gic_init and its gic_dist_init has just returned
DistInitReturned(c) ==
    /\ frame[c].pc = "cpu_ppi"
    /\ hist[cur(c)].op = "gic_init"

\* C13: when init_distributor returns, line_count is min(32 * (f + 1), 1020),
\* f the line-count field, and every shared line L, 32 <= L < line_count, is
\* disabled, has config field 00, a target byte naming the initialising core
\* alone and priority 0xa0; the enable bits of the banked lines 0..31 have not
\* been written.
C13_DistInitDefaults ==
    \A c \in Cores :
        DistInitReturned(c) =>
            LET g == frame[c].gic_nr
                h == hist[cur(c)]
                fld == dist_ctr[g]
                line_count == gic_data[g].max_irq
            IN /\ fld \in 0 .. 31
               /\ line_count = IF 32 * (fld + 1) < 1020 THEN 32 * (fld + 1) ELSE 1020
               /\ \A L \in 32 .. (line_count - 1) :
                     /\ (L % 32) \notin enable[g][L \div 32]
                     /\ config[g][L \div 16] \cap FieldBits(L) = {}
                     /\ target[g][L \div 4] \cap ByteBits(L) = {8 * (L % 4) + c}
                     /\ pri[g][L \div 4] \cap ByteBits(L)
                            = {8 * (L % 4) + 5, 8 * (L % 4) + 7}
               /\ bank = h.pre.bank
               /\ \A n \in DOMAIN h.io :
                     h.io[n].reg \in {"GIC_DIST_ENABLE_SET", "GIC_DIST_ENABLE_CLEAR"}
                         => h.io[n].idx # 0

\* gic_dist_init has returned on a controller with the largest line-count
\* field whose shared lines were all enabled and routed to every core
C13_Witness ==
    \E c \in Cores :
        /\ DistInitReturned(c)
        /\ dist_ctr[frame[c].gic_nr] = 31
        /\ gic_data[frame[c].gic_nr].max_irq = 1020
        /\ hist[cur(c)].pre.enable[frame[c].gic_nr][31] = ALL_ONES
        /\ hist[cur(c)].pre.target[frame[c].gic_nr][254] = ALL_ONES

\* the places in the access log io of the writes to register reg
WritesTo(io, reg) == {n \in Writes(io) : io[n].reg = reg}
\* the places of the writes gic_dist_init makes to set the shared lines up
DistSetup(io) ==
    {n \in Writes(io) :
        \/ io[n].reg \in {"GIC_DIST_CONFIG", "GIC_DIST_TARGET"}
        \/ io[n].reg = "GIC_DIST_PRI" /\ io[n].idx >= 8
        \/ io[n].reg = "GIC_DIST_ENABLE_CLEAR" /\ io[n].idx >= 1}
\* the places of the writes gic_cpu_init makes to the core's banked lines and
\* to the priority mask
CpuSetup(io) ==
    {n \in Writes(io) :
        \/ io[n].reg \in {"GIC_DIST_ENABLE_CLEAR", "GIC_DIST_ENABLE_SET"} /\ io[n].idx = 0
        \/ io[n].reg = "GIC_CPU_PRIMASK"}

\* C14: in gic_init the distributor control register is written 0 before any
\* config, target, priority or enable-clear write of the shared lines, is 0
\* while they are made, and is written 1 only after the last of them; the CPU
\* interface is enabled only after the distributor has been enabled and after
\* the core's PPIs were disabled, its SGIs enabled and its priority mask written.
C14_InitOrdering ==
    \A k \in Calls("gic_init") :
        LET h == hist[k]
            ctrl == WritesTo(h.io, "GIC_DIST_CTRL")
            off == {n \in ctrl : h.io[n].val = {}}
            on == {n \in ctrl : h.io[n].val # {}}
            cpu_on == {n \in WritesTo(h.io, "GIC_CPU_CTRL") : h.io[n].val # {}}
        IN /\ \A s \in DistSetup(h.io) :
                 /\ \E n \in off : n < s
                 /\ \A n \in on : s < n
           /\ (~h.done /\ frame[h.cpu].pc \in {"dist_probe", "dist_config",
                                                "dist_target", "dist_pri",
                                                "dist_disable", "dist_register",
                                                "dist_ctrl_on"})
                 => dist_ctrl[h.gic_nr] = {}
           /\ \A e \in cpu_on :
                 /\ \E n \in on : n < e
                 /\ \E n \in CpuSetup(h.io) :
                       h.io[n].reg = "GIC_DIST_ENABLE_CLEAR"
                       /\ h.io[n].val = BitRange(16, 31) /\ n < e
                 /\ \E n \in CpuSetup(h.io) :
                       h.io[n].reg = "GIC_DIST_ENABLE_SET"
                       /\ h.io[n].val = BitRange(0, 15) /\ n < e
                 /\ \E n \in CpuSetup(h.io) : h.io[n].reg = "GIC_CPU_PRIMASK" /\ n < e
           /\ h.done => Cardinality(off) = 1 /\ Cardinality(on) = 1
                        /\ Cardinality(cpu_on) = 1

\* a gic_init has returned that set up shared lines of a controller whose
\* distributor was enabled when the call began
C14_Witness ==
    \E k \in Calls("gic_init") :
        /\ hist[k].done
        /\ DistSetup(hist[k].io) # {}
        /\ hist[k].pre.dist_ctrl[hist[k].gic_nr] # {}
        /\ hist[k].post.cpu_ctrl[hist[k].gic_nr][hist[k].cpu] # {}

(***************************************************************************)
(* C15: gic_secondary_init.                                                *)
(***************************************************************************)
\* the snapshot s without the banked enable word and the CPU interface of
\* core c on controller g
ButCore(s, g, c) ==
    [s EXCEPT !.bank[g][c] = {}, !.cpu_ctrl[g][c] = {}]

\* C15: init_secondary_cpu(controller) on core c leaves c's banked lines 16..31
\* disabled, 0..15 enabled and c's CPU interface enabled; the banked enable bits
\* of every other core, the enable, config and target registers of the shared
\* lines, the distributor control register, max_irq, irq_offset and both
\* snapshots are as before.
C15_SecondaryInitFrame ==
    \A k \in Done("gic_secondary_init") :
        LET h == hist[k]
        IN /\ h.post.bank[h.gic_nr][h.cpu] = BitRange(0, 15)
           /\ h.post.cpu_ctrl[h.gic_nr][h.cpu] = BIT(0)
           /\ ButCore(h.post, h.gic_nr, h.cpu) = ButCore(h.pre, h.gic_nr, h.cpu)

\* a gic_secondary_init has returned on a core whose PPIs were enabled and
\* whose CPU interface was off, after gic_init on another core
C15_Witness ==
    \E k \in Done("gic_secondary_init") :
        LET h == hist[k]
        IN /\ h.pre.bank[h.gic_nr][h.cpu] \cap BitRange(16, 31) # {}
           /\ h.pre.cpu_ctrl[h.gic_nr][h.cpu] = {}
           /\ \E d \in Cores \ {h.cpu} : h.pre.cpu_ctrl[h.gic_nr][d] # {}

(***************************************************************************)
(* gic_mask_irq and gic_unmask_irq, one call at a time, of lines 30 and 33 *)
(* of controller 0, set up from irq_start 1, 29 or 33, and of line 33 of   *)
(* controller 1, set up from irq_start 129.                                *)
(***************************************************************************)
InitOffset ==
    \E s0 \in {1, 29, 33}, en \in {{}, {1, 2}} :
        InitState([g \in Gics |-> IF g = 0 THEN s0 ELSE 128 * g + 1], en,
                  BitRange(0, 15) \cup {30}, {}, {}, {}, InitTarget, NoCascade,
                  NoneMissing)

NextOffset ==
    \E c \in Cores :
        \/ /\ Sequential
           /\ \E irq \in {gic_data[0].irq_offset + 30, gic_data[0].irq_offset + 33,
                          gic_data[1].irq_offset + 33} :
                 \/ gic_mask_irq_call(c, irq)
                 \/ gic_unmask_irq_call(c, irq)
        \/ gic_mask_irq_lock(c)
        \/ gic_mask_irq_write(c)
        \/ gic_mask_irq_unlock(c)
        \/ gic_unmask_irq_lock(c)
        \/ gic_unmask_irq_write(c)
        \/ gic_unmask_irq_unlock(c)

SpecOffset == InitOffset /\ [][NextOffset]_vars

(***************************************************************************)
(* C16: the frame of mask and unmask.                                      *)
(***************************************************************************)
\* the snapshot s with bit b of enable word w of controller g, as core c
\* sees it, cleared
ButEnableBit(s, g, c, w, b) ==
    IF w = 0 THEN [s EXCEPT !.bank[g][c] = @ \ {b}]
    ELSE [s EXCEPT !.enable[g][w] = @ \ {b}]

\* C16: whatever irq_start the controller's irq_offset was computed from,
\* mask(g) and unmask(g) of global line g change at most bit
\* (g - irq_offset) % 32 of enable word (g - irq_offset) / 32 of the owning
\* controller; mask of a masked line and unmask of an unmasked line change
\* nothing.
C16_MaskUnmaskFrame ==
    \A k \in SoloDone("gic_mask_irq") \cup SoloDone("gic_unmask_irq") :
        LET h == hist[k]
            g == gic_of(h.irq)
            line == h.irq - h.pre.gic_data[g].irq_offset
            was == (line % 32) \in ViewOf(h.pre, g, h.cpu, line \div 32)
        IN /\ ButEnableBit(h.post, g, h.cpu, line \div 32, line % 32)
                = ButEnableBit(h.pre, g, h.cpu, line \div 32, line % 32)
           /\ (h.op = "gic_mask_irq" /\ ~was) => h.post = h.pre
           /\ (h.op = "gic_unmask_irq" /\ was) => h.post = h.pre

\* a mask or unmask has changed the enable bit of a line of a controller whose
\* first irq is not a multiple of 32 and whose irq_offset is not 0
C16_Witness ==
    \E k \in SoloDone("gic_mask_irq") \cup SoloDone("gic_unmask_irq") :
        LET h == hist[k]
            g == gic_of(h.irq)
        IN /\ h.pre.gic_data[g].irq_offset # 0
           /\ chip_data[g].first % 32 # 0
           /\ h.post # h.pre


(***************************************************************************)
(* gic_set_type of line 33 on one core while other cores mask, unmask or   *)
(* retype the same line.                                                   *)
(***************************************************************************)
InitRetype ==
    \E en \in {{}, {1}} :
        InitState(DefaultStarts, en, BitRange(0, 15), {}, {}, {}, InitTarget,
                  NoCascade, NoneMissing)

NextRetype ==
    \E c \in Cores :
        \/ gic_mask_irq_call(c, 33)
        \/ gic_mask_irq_lock(c)
        \/ gic_mask_irq_write(c)
        \/ gic_mask_irq_unlock(c)
        \/ gic_unmask_irq_call(c, 33)
        \/ gic_unmask_irq_lock(c)
        \/ gic_unmask_irq_write(c)
        \/ gic_unmask_irq_unlock(c)
        \/ gic_set_type_call(c, 33, IRQ_TYPE_EDGE_RISING)
        \/ gic_set_type_lock(c)
        \/ gic_set_type_read_conf(c)
        \/ gic_set_type_read_enable(c)
        \/ gic_set_type_disable(c)
        \/ gic_set_type_write_conf(c)
        \/ gic_set_type_enable(c)
        \/ gic_set_type_unlock(c)
        \/ gic_set_type_handler(c)

SpecRetype == InitRetype /\ [][NextRetype]_vars

(***************************************************************************)
(* C17: gic_set_type and the enable bit of its line.                       *)
(***************************************************************************)
\* the enable bit of the line core c's call is about, as core c sees it
OwnEnableBit(c) ==
    LET gicirq == gic_irq(frame[c].irq)
    IN (gicirq % 32) \in readl_ENABLE_SET(gic_of(frame[c].irq), c, gicirq \div 32)

\* the pcs at which gic_set_type holds irq_controller_lock
TypeLocked == {"type_read_conf", "type_read_enable", "type_disable",
               "type_write_conf", "type_enable", "type_unlock"}

\* what core c's gic_set_type, holding the lock, has yet to leave in the enable
\* bit: the bit itself until it was read, and what was read from then on
TypeOwes(c) ==
    IF frame[c].pc \in {"type_read_conf", "type_read_enable"} THEN OwnEnableBit(c)
    ELSE IF frame[c].pc = "type_disable" THEN TRUE
    ELSE frame[c].enabled

\* C17 as stated: when gic_set_type returns 0, the line's enable bit is what it
\* was when gic_set_type took irq_controller_lock.
C17_EnableBitKeptAtReturn ==
    [][\A c \in Cores :
          (frame[c].pc = "type_handler" /\ frame'[c].pc = "idle")
              => (OwnEnableBit(c) <=> frame[c].enabled)]_vars

\* C17, amended: while other cores mask, unmask and retype the line, the enable
\* bit is 0 when gic_set_type writes the config word, and when gic_set_type
\* releases irq_controller_lock the bit is what it was when the lock was taken:
\* no step of any core changes what the call owes while it holds the lock, and
\* the release leaves exactly that.
C17_EnableBitKeptAtUnlock ==
    [][\A c \in Cores :
          /\ frame[c].pc = "type_write_conf" => ~OwnEnableBit(c)
          /\ (frame[c].pc = "type_check" /\ frame'[c].pc = "type_read_conf")
                => (TypeOwes(c)' <=> OwnEnableBit(c))
          /\ (frame[c].pc \in TypeLocked /\ frame'[c].pc \in TypeLocked)
                => (TypeOwes(c)' <=> TypeOwes(c))
          /\ (frame[c].pc = "type_unlock" /\ frame'[c].pc = "type_handler")
                => (OwnEnableBit(c)' <=> TypeOwes(c))]_vars

\* a gic_set_type that disabled the enabled line and enabled it again is about
\* to release the lock another core's gic_mask_irq waits for
C17_Witness ==
    \E c \in Cores, d \in Cores :
        /\ frame[c].pc = "type_unlock" /\ frame[c].enabled /\ OwnEnableBit(c)
        /\ frame[d].pc = "mask_lock" /\ frame[d].irq = frame[c].irq


(***************************************************************************)
(* The pending bits: the hardware sets the bit of a line that is raised,   *)
(* gic_is_spi_pending reads it, gic_clear_spi_pending clears it and        *)
(* gic_show_resume_irq reports the enabled lines that have it set.  Their  *)
(* callers have interrupts disabled (gic.c:517-518, 538-539).              *)
(***************************************************************************)
\* line gicirq of controller g is raised: its bit shows in GIC_DIST_PENDING_SET
gic_line_raised(g, gicirq) ==
    /\ (gicirq % 32) \notin pending[g][gicirq \div 32]
    /\ pending' = [pending EXCEPT ![g][gicirq \div 32] = @ \cup BIT(gicirq % 32)]
    /\ UNCHANGED <<lock, frame, hist, hw, gic_data, registry, edge_irqs, dist_ctr,
                   dist_ctrl, pri, bank_pri, cpu_ctrl, cpu_primask>>

\* WARN_ON(val & mask): the warning, if there is one
WarnEnabled(g, irq, v) ==
    IF v \cap IrqMask(irq) # {} THEN <<Acc("call", "WARN_ON", g, irq, v)>> ELSE <<>>

gic_is_spi_pending_call(c, irq) ==
    /\ Call(c, "gic_is_spi_pending", [IdleFrame EXCEPT !.pc = "ispend_lock", !.irq = irq])
    /\ UNCHANGED <<lock, hw, gic_data, registry, ctl, edge_irqs>>

gic_is_spi_pending_lock(c) ==
    /\ frame[c].pc = "ispend_lock"
    /\ spin_lock(c)
    /\ Advance(c, [frame[c] EXCEPT !.pc = "ispend_enabled"], <<LockAcc>>)
    /\ UNCHANGED <<hw, gic_data, registry, ctl, edge_irqs>>

\* val = readl(gic_dist_base(d) + GIC_DIST_ENABLE_SET + ...); WARN_ON(val & mask)
gic_is_spi_pending_enabled(c) ==
    LET f == frame[c]
        g == gic_of(f.irq)
        w == gic_irq(f.irq) \div 32
        v == readl_ENABLE_SET(g, c, w)
    IN /\ f.pc = "ispend_enabled"
       /\ Advance(c, [f EXCEPT !.pc = "ispend_read"],
                  <<Acc("readl", "GIC_DIST_ENABLE_SET", g, w, v)>>
                      \o WarnEnabled(g, f.irq, v))
       /\ UNCHANGED <<lock, hw, gic_data, registry, ctl, edge_irqs>>

\* val = readl(gic_dist_base(d) + GIC_DIST_PENDING_SET + ...)
gic_is_spi_pending_read(c) ==
    LET f == frame[c]
        g == gic_of(f.irq)
        w == gic_irq(f.irq) \div 32
        v == pending[g][w]
    IN /\ f.pc = "ispend_read"
       /\ Advance(c, [f EXCEPT !.pc = "ispend_unlock", !.val = v],
                  <<Acc("readl", "GIC_DIST_PENDING_SET", g, w, v)>>)
       /\ UNCHANGED <<lock, hw, gic_data, registry, ctl, edge_irqs>>

\* spin_unlock(&irq_controller_lock); return (bool) (val & mask)
gic_is_spi_pending_unlock(c) ==
    LET f == frame[c]
    IN /\ f.pc = "ispend_unlock"
       /\ spin_unlock(c)
       /\ UNCHANGED <<hw, gic_data, registry, ctl, edge_irqs>>
       /\ Return(c, <<UnlockAcc>>, IF f.val \cap IrqMask(f.irq) # {} THEN 1 ELSE 0)

gic_clear_spi_pending_call(c, irq) ==
    /\ Call(c, "gic_clear_spi_pending", [IdleFrame EXCEPT !.pc = "clrpend_lock",
                                                          !.irq = irq])
    /\ UNCHANGED <<lock, hw, gic_data, registry, ctl, edge_irqs>>

gic_clear_spi_pending_lock(c) ==
    /\ frame[c].pc = "clrpend_lock"
    /\ spin_lock(c)
    /\ Advance(c, [frame[c] EXCEPT !.pc = "clrpend_enabled"], <<LockAcc>>)
    /\ UNCHANGED <<hw, gic_data, registry, ctl, edge_irqs>>

\* val = readl(gic_dist_base(d) + GIC_DIST_ENABLE_SET + ...); WARN_ON(val & mask)
gic_clear_spi_pending_enabled(c) ==
    LET f == frame[c]
        g == gic_of(f.irq)
        w == gic_irq(f.irq) \div 32
        v == readl_ENABLE_SET(g, c, w)
    IN /\ f.pc = "clrpend_enabled"
       /\ Advance(c, [f EXCEPT !.pc = "clrpend_write"],
                  <<Acc("readl", "GIC_DIST_ENABLE_SET", g, w, v)>>
                      \o WarnEnabled(g, f.irq, v))
       /\ UNCHANGED <<lock, hw, gic_data, registry, ctl, edge_irqs>>

\* writel(mask, gic_dist_base(d) + GIC_DIST_PENDING_CLEAR + ...)
gic_clear_spi_pending_write(c) ==
    LET f == frame[c]
        g == gic_of(f.irq)
        w == gic_irq(f.irq) \div 32
    IN /\ f.pc = "clrpend_write"
       /\ pending' = [pending EXCEPT ![g][w] = @ \ IrqMask(f.irq)]
       /\ Advance(c, [f EXCEPT !.pc = "clrpend_unlock"],
                  <<Acc("writel", "GIC_DIST_PENDING_CLEAR", g, w, IrqMask(f.irq))>>)
       /\ UNCHANGED <<lock, hw, gic_data, registry, edge_irqs, dist_ctr, dist_ctrl,
                      pri, bank_pri, cpu_ctrl, cpu_primask>>

gic_clear_spi_pending_unlock(c) ==
    /\ frame[c].pc = "clrpend_unlock"
    /\ spin_unlock(c)
    /\ UNCHANGED <<hw, gic_data, registry, ctl, edge_irqs>>
    /\ Return(c, <<UnlockAcc>>, 0)

gic_show_resume_irq_call(c, g) ==
    /\ Call(c, "gic_show_resume_irq", [IdleFrame EXCEPT !.pc = "show_lock",
                                                        !.gic_nr = g])
    /\ UNCHANGED <<lock, hw, gic_data, registry, ctl, edge_irqs>>

\* spin_lock(&irq_controller_lock); i = 0 (max_irq is not 0 after gic_init)
gic_show_resume_irq_lock(c) ==
    /\ frame[c].pc = "show_lock"
    /\ spin_lock(c)
    /\ Advance(c, [frame[c] EXCEPT !.pc = "show_read"], <<LockAcc>>)
    /\ UNCHANGED <<hw, gic_data, registry, ctl, edge_irqs>>

\* enabled = readl(base + GIC_DIST_ENABLE_CLEAR + i * 4);
\* pending[i] = readl(base + GIC_DIST_PENDING_SET + i * 4); pending[i] &= enabled
gic_show_resume_irq_read(c) ==
    LET f == frame[c]
        g == f.gic_nr
        e == readl_ENABLE_SET(g, c, f.i)
        p == pending[g][f.i]
    IN /\ f.pc = "show_read"
       /\ Advance(c, [f EXCEPT !.pc = IF MoreWords(g, f.i) THEN "show_read"
                                      ELSE "show_unlock",
                               !.i = f.i + 1,
                               !.pending = @ \cup {f.i * 32 + b : b \in p \cap e}],
                  <<Acc("readl", "GIC_DIST_ENABLE_CLEAR", g, f.i, e),
                    Acc("readl", "GIC_DIST_PENDING_SET", g, f.i, p)>>)
       /\ UNCHANGED <<lock, hw, gic_data, registry, ctl, edge_irqs>>

\* find_first_bit, find_next_bit: the numbers of S in ascending order
InOrder(S) ==
    [n \in 1 .. Cardinality(S) |->
        CHOOSE x \in S : Cardinality({y \in S : y < x}) = n - 1]

\* spin_unlock(&irq_controller_lock); then for every bit i < max_irq of pending
\* pr_warning("%s: %d triggered", __func__, i + irq_offset)
gic_show_resume_irq_unlock(c) ==
    LET f == frame[c]
        g == f.gic_nr
        found == InOrder({i \in f.pending : i < gic_data[g].max_irq})
    IN /\ f.pc = "show_unlock"
       /\ spin_unlock(c)
       /\ UNCHANGED <<hw, gic_data, registry, ctl, edge_irqs>>
       /\ Return(c, <<UnlockAcc>> \o
                    [n \in DOMAIN found |->
                        Acc("call", "pr_warning", g,
                            found[n] + gic_data[g].irq_offset, {})], 0)

(***************************************************************************)
(* Every entry point that takes irq_controller_lock, called on any core    *)
(* at any time: line 33 of controller 0 is acked, masked, unmasked,        *)
(* retyped, routed, asked for and cleared of its pending bit; line 35 has  *)
(* no descriptor; controller 1 is wired to line 34.  A core that is in a   *)
(* call goes on with it.                                                   *)
(***************************************************************************)
InitLocked ==
    InitState(DefaultStarts, {1}, BitRange(0, 15), {}, {}, {}, InitTarget,
              CascadeWiring, {35})

LockedCall(c) ==
    \/ gic_ack_irq_call(c, 33)
    \/ gic_mask_irq_call(c, 33)
    \/ gic_unmask_irq_call(c, 33)
    \/ gic_set_type_call(c, 33, IRQ_TYPE_EDGE_RISING)
    \/ \E irq \in {33, 35} : gic_set_cpu_call(c, irq, {NR_CPUS - 1})
    \/ gic_handle_cascade_irq_call(c, 34)
    \/ gic_is_spi_pending_call(c, 33)
    \/ gic_clear_spi_pending_call(c, 33)
    \/ gic_show_resume_irq_call(c, 0)

LockedStep(c) ==
    \/ gic_ack_irq_lock(c)
    \/ gic_ack_irq_write(c)
    \/ gic_ack_irq_unlock(c)
    \/ gic_mask_irq_lock(c)
    \/ gic_mask_irq_write(c)
    \/ gic_mask_irq_unlock(c)
    \/ gic_unmask_irq_lock(c)
    \/ gic_unmask_irq_write(c)
    \/ gic_unmask_irq_unlock(c)
    \/ gic_set_type_lock(c)
    \/ gic_set_type_read_conf(c)
    \/ gic_set_type_read_enable(c)
    \/ gic_set_type_disable(c)
    \/ gic_set_type_write_conf(c)
    \/ gic_set_type_enable(c)
    \/ gic_set_type_unlock(c)
    \/ gic_set_type_handler(c)
    \/ gic_set_cpu_lock(c)
    \/ gic_set_cpu_nodesc(c)
    \/ gic_set_cpu_read(c)
    \/ gic_set_cpu_write(c)
    \/ gic_set_cpu_unlock(c)
    \/ gic_handle_cascade_irq_ack_lock(c)
    \/ gic_handle_cascade_irq_ack_write(c)
    \/ gic_handle_cascade_irq_ack_unlock(c)
    \/ gic_handle_cascade_irq_lock(c)
    \/ \E status \in {1023, 5, 40} : gic_handle_cascade_irq_read(c, status)
    \/ gic_handle_cascade_irq_unlock(c)
    \/ gic_handle_cascade_irq_spurious(c)
    \/ gic_handle_cascade_irq_bad(c)
    \/ gic_handle_cascade_irq_dispatch(c)
    \/ gic_handle_cascade_irq_unmask_lock(c)
    \/ gic_handle_cascade_irq_unmask_write(c)
    \/ gic_handle_cascade_irq_unmask_unlock(c)
    \/ gic_is_spi_pending_lock(c)
    \/ gic_is_spi_pending_enabled(c)
    \/ gic_is_spi_pending_read(c)
    \/ gic_is_spi_pending_unlock(c)
    \/ gic_clear_spi_pending_lock(c)
    \/ gic_clear_spi_pending_enabled(c)
    \/ gic_clear_spi_pending_write(c)
    \/ gic_clear_spi_pending_unlock(c)
    \/ gic_show_resume_irq_lock(c)
    \/ gic_show_resume_irq_read(c)
    \/ gic_show_resume_irq_unlock(c)

NextLocked ==
    \/ \E c \in Cores : LockedCall(c) \/ LockedStep(c)
    \/ gic_line_raised(0, 33)

\* the cores are scheduled fairly: a core that can go on does
SpecLocked ==
    InitLocked /\ [][NextLocked]_vars /\ \A c \in Cores : WF_vars(LockedStep(c))


(***************************************************************************)
(* C18: irq_controller_lock is released on every path and every call       *)
(* returns.                                                                *)
(***************************************************************************)
\* the pcs at which a core is about to take irq_controller_lock
Acquiring == {"ack_lock", "mask_lock", "unmask_lock", "type_check", "cpu_lock",
              "casc_ack_lock", "casc_lock", "casc_unmask_lock", "ispend_lock",
              "clrpend_lock", "show_lock"}

WakeBit(irq) ==
    LET g == gic_of(irq)
    IN (gic_irq(irq) % 32) \in gic_data[g].wakeup_irqs[gic_irq(irq) \div 32]

\* C19: once gic_set_wake(on = 1) of two different lines of one word of one
\* controller has returned on two cores, both lines' wake bits are set, however
\* the two calls interleaved.
C19_NoLostWakeUpdate ==
    \A j, k \in Done("gic_set_wake") :
        (/\ hist[j].cpu # hist[k].cpu /\ hist[j].irq # hist[k].irq
         /\ hist[j].on = 1 /\ hist[k].on = 1
         /\ gic_of(hist[j].irq) = gic_of(hist[k].irq)
         /\ gic_irq(hist[j].irq) \div 32 = gic_irq(hist[k].irq) \div 32)
            => WakeBit(hist[j].irq) /\ WakeBit(hist[k].irq)

\* both calls have returned and the wake bit of one of the two lines is not set
C19_Witness ==
    \E j, k \in Done("gic_set_wake") :
        /\ hist[j].cpu # hist[k].cpu /\ hist[j].irq = 33 /\ hist[k].irq = 34
        /\ hist[j].on = 1 /\ hist[k].on = 1
        /\ ~(WakeBit(33) /\ WakeBit(34))


(***************************************************************************)
(* C20: gic_suspend while another core retypes an enabled shared line.     *)
(***************************************************************************)
\* the calls so far are a gic_suspend of controller 0 and a gic_set_type of
\* line 33 that returned 0, on two cores, and line 33 was enabled and no wakeup
\* source when the first of them was made
SuspendedWhileRetyped ==
    /\ Len(hist) = 2
    /\ \E j \in Done("gic_suspend"), k \in Done("gic_set_type") :
          hist[j].cpu # hist[k].cpu /\ hist[k].irq = 33 /\ hist[k].ret = 0
    /\ 1 \in hist[1].pre.enable[0][1]
    /\ 1 \notin hist[1].pre.gic_data[0].wakeup_irqs[1]

\* C20: gic_suspend is atomic with respect to a concurrent gic_set_type of an
\* enabled shared line: once both have returned, enabled_irqs holds the line
\* (it was enabled throughout the order of the two calls, so the next
\* gic_resume enables it again), and the line, which is no wakeup source, is
\* not enabled.
C20_SuspendAtomic ==
    SuspendedWhileRetyped
        => /\ 1 \in gic_data[0].enabled_irqs[1]
           /\ enable[0][1] \subseteq gic_data[0].wakeup_irqs[1]

\* both calls have returned, and line 33 is enabled although it is no wakeup
\* source, or is missing from enabled_irqs although nothing masked it
C20_Witness ==
    /\ SuspendedWhileRetyped
    /\ \/ 1 \in enable[0][1]
       \/ 1 \notin gic_data[0].enabled_irqs[1]

=============================================================================
